---- MODULE Spec2Model ----
(***************************************************************************)
(* Conversation router of the property bot (handleMessage) and the lead    *)
(* record it drives.                                                       *)
(*                                                                         *)
(* A JavaScript string is modelled as a sequence of one-character strings, *)
(* so that toLowerCase, trim, includes, split and the regular expressions  *)
(* of the router are computed character by character.  Enumerated values   *)
(* the code only compares as a whole (stages, actions, statuses, field     *)
(* names) are TLA+ strings.                                                *)
(***************************************************************************)
EXTENDS Integers, Sequences, FiniteSets, TLC

VARIABLES lead, tenant, input, out, pc, events, bookings, leads, reqs, slotReq, notif

vars == <<lead, tenant, input, out, pc, events, bookings, leads, reqs, slotReq, notif>>

\* the conversation of one lead with the router
routerVars == <<lead, tenant, input, out, pc>>

\* the calendar, the Bookings table, the Leads rows the booking endpoints write and
\* the create-booking requests in flight
bookingVars == <<events, bookings, leads, reqs>>

\* the available-slots-v2 request being served
slotVars == <<slotReq>>

\* the clock, the notification flags of the bookings and the check-notifications
\* request being served
notifVars == <<notif>>

(***************************************************************************)
(* Characters and the String methods the router uses                       *)
(***************************************************************************)
LowerAlpha == <<"a","b","c","d","e","f","g","h","i","j","k","l","m","n","o","p","q","r","s","t","u","v","w","x","y","z">>
UpperAlpha == <<"A","B","C","D","E","F","G","H","I","J","K","L","M","N","O","P","Q","R","S","T","U","V","W","X","Y","Z">>
DigitChars == <<"0","1","2","3","4","5","6","7","8","9">>

Range(s) == {s[i] : i \in 1..Len(s)}

IsLetter(c) == c \in Range(LowerAlpha) \cup Range(UpperAlpha)
IsDigit(c) == c \in Range(DigitChars)
\* \s of a regular expression, and what String.prototype.trim strips
IsSpace(c) == c \in {" ", "\t", "\n"}
\* "." of a regular expression matches everything but a line terminator
IsDot(c) == c # "\n"

IndexIn(alpha, c) == CHOOSE i \in 1..Len(alpha) : alpha[i] = c

toLowerChar(c) == IF c \in Range(UpperAlpha) THEN LowerAlpha[IndexIn(UpperAlpha, c)] ELSE c
toUpperChar(c) == IF c \in Range(LowerAlpha) THEN UpperAlpha[IndexIn(LowerAlpha, c)] ELSE c

toLowerCase(s) == [i \in 1..Len(s) |-> toLowerChar(s[i])]
toUpperCase(s) == [i \in 1..Len(s) |-> toUpperChar(s[i])]

trim(s) ==
    LET keep == {i \in 1..Len(s) : ~IsSpace(s[i])}
    IN  IF keep = {} THEN <<>>
        ELSE SubSeq(s, CHOOSE i \in keep : \A j \in keep : i <= j,
                       CHOOSE i \in keep : \A j \in keep : j <= i)

\* s.substring(i - 1): the rest of s from position i (1-based)
From(s, i) == SubSeq(s, i, Len(s))

StartsAt(s, sub, i) == i + Len(sub) - 1 <= Len(s) /\ SubSeq(s, i, i + Len(sub) - 1) = sub

\* s.includes(sub)
includes(s, sub) == \E i \in 1..(Len(s) + 1) : StartsAt(s, sub, i)

Min(S) == CHOOSE x \in S : \A y \in S : x <= y

\* s.split(','): the segments between the commas, empty ones included
RECURSIVE split(_, _)
split(s, sep) ==
    LET at == {i \in 1..Len(s) : s[i] = sep}
    IN  IF at = {} THEN <<s>>
        ELSE <<SubSeq(s, 1, Min(at) - 1)>> \o split(From(s, Min(at) + 1), sep)

\* s.split(/\s+/): the segments between the runs of white space; a leading or
\* trailing run leaves an empty first or last segment
RECURSIVE splitSpaces(_)
splitSpaces(s) ==
    LET at == {i \in 1..Len(s) : IsSpace(s[i])}
        first == Min(at)
        after == {i \in first..Len(s) : ~IsSpace(s[i])}
    IN  IF at = {} THEN <<s>>
        ELSE IF after = {} THEN <<SubSeq(s, 1, first - 1), <<>> >>
        ELSE <<SubSeq(s, 1, first - 1)>> \o splitSpaces(From(s, Min(after)))

\* words.join(' ')
RECURSIVE join(_)
join(words) ==
    IF Len(words) = 0 THEN <<>>
    ELSE IF Len(words) = 1 THEN words[1]
    ELSE words[1] \o <<" ">> \o join(Tail(words))

\* s.replace(/[^...]/g, ''): the characters of s that are in keep, in order
filterChars(s, keep) == SelectSeq(s, LAMBDA c : c \in keep)

\* word.charAt(0).toUpperCase() + word.slice(1).toLowerCase()
capitalize(word) ==
    IF Len(word) = 0 THEN <<>>
    ELSE <<toUpperChar(word[1])>> \o toLowerCase(Tail(word))

\* parseInt of a string that starts with digits: the value of the leading digits
RECURSIVE digitsValue(_)
digitsValue(s) ==
    IF Len(s) = 0 THEN 0
    ELSE digitsValue(SubSeq(s, 1, Len(s) - 1)) * 10 + (IndexIn(DigitChars, s[Len(s)]) - 1)

\* the longest run of digits that starts at position i of s
DigitsFrom(s, i) ==
    LET stop == {j \in i..Len(s) : ~IsDigit(s[j])}
    IN  SubSeq(s, i, IF stop = {} THEN Len(s) ELSE Min(stop) - 1)

\* the white space skipped by \s* from position i: the first position after it
SkipSpaces(s, i) ==
    LET stop == {j \in i..Len(s) : ~IsSpace(s[j])}
    IN  IF stop = {} THEN Len(s) + 1 ELSE Min(stop)

\* /prefix(.+)/ on s: the leftmost place where prefix is followed by at least one
\* character of the same line; the capture is the rest of that line
PhraseAt(s, prefix) ==
    {i \in 1..Len(s) : StartsAt(s, prefix, i)
                        /\ i + Len(prefix) <= Len(s) /\ IsDot(s[i + Len(prefix)])}

MatchesPhrase(s, prefix) == PhraseAt(s, prefix) # {}

PhraseCapture(s, prefix) ==
    LET b == Min(PhraseAt(s, prefix)) + Len(prefix)
        stop == {j \in b..Len(s) : ~IsDot(s[j])}
    IN  SubSeq(s, b, IF stop = {} THEN Len(s) ELSE Min(stop) - 1)

\* /prefix\s*(\d+)/ on s: the leftmost place where prefix, optional white space and
\* a digit follow one another; the capture is the run of digits
NumberAfterAt(s, prefix) ==
    {i \in 1..Len(s) : StartsAt(s, prefix, i)
                        /\ SkipSpaces(s, i + Len(prefix)) <= Len(s)
                        /\ IsDigit(s[SkipSpaces(s, i + Len(prefix))])}

MatchesNumberAfter(s, prefix) == NumberAfterAt(s, prefix) # {}

NumberAfterCapture(s, prefix) ==
    DigitsFrom(s, SkipSpaces(s, Min(NumberAfterAt(s, prefix)) + Len(prefix)))

\* /^\d+$/
AllDigits(s) == Len(s) > 0 /\ \A i \in 1..Len(s) : IsDigit(s[i])

\* /(\d+)\s*bed/: the leftmost run of digits that white space and "bed" follow
DigitsThenAt(s, word) ==
    {i \in 1..Len(s) : IsDigit(s[i])
                        /\ StartsAt(s, word, SkipSpaces(s, i + Len(DigitsFrom(s, i))))}

\* /i (want|need) X/: the places where "i want " or "i need " is followed by a
\* character of the set that starts X
WantNeedAt(s, first) ==
    {i \in 1..Len(s) : (StartsAt(s, <<"i"," ","w","a","n","t"," ">>, i) \/ StartsAt(s, <<"i"," ","n","e","e","d"," ">>, i))
                        /\ i + 7 <= Len(s) /\ s[i + 7] \in first}

\* /^[a-zA-Z]{2,}(\s[a-zA-Z]{2,})*$/: words of two letters or more, one white-space
\* character between two words
IsPlainName(s) ==
    /\ Len(s) > 0
    /\ \A i \in 1..Len(s) : IsLetter(s[i]) \/ IsSpace(s[i])
    /\ \A i \in 1..Len(s) : IsLetter(s[i]) =>
          \/ (i > 1 /\ IsLetter(s[i - 1]))
          \/ (i < Len(s) /\ IsLetter(s[i + 1]))
    /\ \A i \in 1..Len(s) : IsSpace(s[i]) =>
          i > 1 /\ i < Len(s) /\ IsLetter(s[i - 1]) /\ IsLetter(s[i + 1])

\* /[a-zA-Z]{2,}/: two letters in a row somewhere
HasTwoLetters(s) == \E i \in 1..(Len(s) - 1) : IsLetter(s[i]) /\ IsLetter(s[i + 1])

\* /^[\d.,]+[MK]?$/
IsBudgetShape(s) ==
    LET body == IF Len(s) > 0 /\ s[Len(s)] \in {"M", "K"} THEN SubSeq(s, 1, Len(s) - 1) ELSE s
    IN  Len(body) > 0 /\ \A i \in 1..Len(body) : IsDigit(body[i]) \/ body[i] \in {".", ","}

\* /(\d+x\d+|\d+\/\d+|\d+\s*acre)/
IsPlotShape(s) ==
    \/ \E i \in 2..(Len(s) - 1) : s[i] \in {"x", "/"} /\ IsDigit(s[i - 1]) /\ IsDigit(s[i + 1])
    \/ DigitsThenAt(s, <<"a","c","r","e">>) # {}

(***************************************************************************)
(* Numbers: parseFloat, the multiplication by 1,000,000 or 1,000, and      *)
(* Number.prototype.toString.  A number is NaN or a decimal fraction       *)
(* [num, den] with den a power of ten; the rounding of binary floating     *)
(* point is not modelled, decimal arithmetic is exact.                     *)
(***************************************************************************)
NaN == [nan |-> TRUE]

Whole(n) == [num |-> n, den |-> 1]

HexChars == <<"0","1","2","3","4","5","6","7","8","9","a","b","c","d","e","f">>

RECURSIVE hexValue(_)
hexValue(s) ==
    IF Len(s) = 0 THEN 0
    ELSE hexValue(SubSeq(s, 1, Len(s) - 1)) * 16 + (IndexIn(HexChars, toLowerChar(s[Len(s)])) - 1)

\* the longest run of hexadecimal digits that starts at position i of s
HexFrom(s, i) ==
    LET stop == {j \in i..Len(s) : toLowerChar(s[j]) \notin Range(HexChars)}
    IN  SubSeq(s, i, IF stop = {} THEN Len(s) ELSE Min(stop) - 1)

\* parseInt(s): leading white space skipped, an optional sign, then the digits of a
\* "0x" hexadecimal numeral or the leading decimal digits; NaN without a digit
parseInt(s) ==
    LET b == SkipSpaces(s, 1)
        signed == b <= Len(s) /\ s[b] \in {"+", "-"}
        sign == IF signed /\ s[b] = "-" THEN -1 ELSE 1
        n == IF signed THEN b + 1 ELSE b
        hex == n + 1 <= Len(s) /\ s[n] = "0" /\ s[n + 1] \in {"x", "X"}
        d == IF hex THEN HexFrom(s, n + 2) ELSE DigitsFrom(s, n)
    IN  IF Len(d) = 0 THEN NaN
        ELSE Whole(sign * (IF hex THEN hexValue(d) ELSE digitsValue(d)))

RECURSIVE Pow10(_)
Pow10(k) == IF k = 0 THEN 1 ELSE 10 * Pow10(k - 1)

RECURSIVE Reduce(_)
Reduce(x) ==
    IF x.den > 1 /\ x.num % 10 = 0 THEN Reduce([num |-> x.num \div 10, den |-> x.den \div 10])
    ELSE x

\* parseFloat(s) for s made of digits, dots and a letter suffix: the longest prefix
\* of the shape digits [. digits] that holds a digit; NaN when there is none
parseFloat(s) ==
    LET ip == DigitsFrom(s, 1)
        dot == Len(ip) + 1 <= Len(s) /\ s[Len(ip) + 1] = "."
        fp == IF dot THEN DigitsFrom(s, Len(ip) + 2) ELSE <<>>
    IN  IF Len(ip) = 0 /\ Len(fp) = 0 THEN NaN
        ELSE Reduce([num |-> digitsValue(ip) * Pow10(Len(fp)) + digitsValue(fp),
                     den |-> Pow10(Len(fp))])

Times(x, k) == IF x = NaN THEN NaN ELSE Reduce([num |-> x.num * k, den |-> x.den])

RECURSIVE natToString(_)
natToString(n) ==
    IF n < 10 THEN <<DigitChars[n + 1]>>
    ELSE natToString(n \div 10) \o <<DigitChars[(n % 10) + 1]>>

RECURSIVE fracDigits(_, _)
fracDigits(n, den) ==
    IF den = 1 THEN <<>>
    ELSE fracDigits(n \div 10, den \div 10) \o <<DigitChars[(n % 10) + 1]>>

\* x.toString()
numberToString(x) ==
    IF x = NaN THEN <<"N","a","N">>
    ELSE IF x.den = 1 THEN natToString(x.num)
    ELSE natToString(x.num \div x.den) \o <<".">> \o fracDigits(x.num % x.den, x.den)

(***************************************************************************)
(* JavaScript values of the input fields whose type the router relies on   *)
(***************************************************************************)
JsUndefined == [t |-> "undefined"]
JsString(s) == [t |-> "string", v |-> s]
JsNumber(n) == [t |-> "number", v |-> n]

IsString(x) == x.t = "string"
\* the truthiness || and && test
Truthy(x) ==
    \/ x.t = "string" /\ x.v # <<>>
    \/ x.t = "number" /\ x.v # 0

\* a map of fields: Airtable field name -> value
NoFields == [k \in {} |-> TRUE]

(***************************************************************************)
(* handleMessage (the variant with natural language and the follow-up      *)
(* handler)                                                                *)
(***************************************************************************)
Thrown == [thrown |-> TRUE]

Reply(tpl, args) == [tpl |-> tpl, args |-> args]

\* the response object of step 4
response ==
    [action |-> "", updateFields |-> NoFields, replyMessage |-> Reply("", <<>>),
     createLead |-> FALSE, searchProperties |-> FALSE, bookingRequest |-> FALSE,
     interest |-> <<>>, bedrooms |-> 0, requestedBedrooms |-> 0, propertyNumber |-> 0,
     location |-> <<>>, selectedTime |-> JsString(<<>>), plotSize |-> <<>>]

\* the descriptor of the catch block
ErrorDescriptor ==
    [action |-> "error", replyMessage |-> Reply("Oops! Something went wrong.", <<>>)]

\* input.x || "default" for a text field (the empty sequence is the absent field)
OrDefault(s, d) == IF s # <<>> THEN s ELSE d

\* types.split(',').map(t => t.trim())
typesListOf(tenantTypes) ==
    LET parts == split(tenantTypes, ",")
    IN  [i \in 1..Len(parts) |-> trim(parts[i])]

RECURSIVE joinLines(_)
joinLines(ls) ==
    IF Len(ls) = 0 THEN <<>>
    ELSE IF Len(ls) = 1 THEN ls[1]
    ELSE ls[1] \o <<"\n">> \o joinLines(Tail(ls))

formatOptions(types) ==
    LET list == typesListOf(types)
    IN  joinLines([i \in 1..Len(list) |-> natToString(i) \o <<"#", " ">> \o list[i]])

\* typesList.find(t => t.toLowerCase().includes(word)): the first such type, or
\* the empty sequence for undefined
findType(typesList, word) ==
    LET hits == {i \in 1..Len(typesList) : includes(toLowerCase(typesList[i]), word)}
    IN  IF hits = {} THEN <<>> ELSE typesList[Min(hits)]

\* a loop without the break: the last configured type the message names
lastNamedType(typesList, lowerMsg) ==
    LET hits == {i \in 1..Len(typesList) : includes(lowerMsg, toLowerCase(typesList[i]))}
    IN  IF hits = {} THEN <<>> ELSE typesList[CHOOSE i \in hits : \A j \in hits : j <= i]

\* the for loop of the new-user branch: the first configured type whose lower-cased
\* name the message includes (null becomes the empty sequence)
firstNamedType(typesList, lowerMsg) ==
    LET hits == {i \in 1..Len(typesList) : includes(lowerMsg, toLowerCase(typesList[i]))}
    IN  IF hits = {} THEN <<>> ELSE typesList[Min(hits)]

includesAny(s, words) == \E w \in words : includes(s, w)

BuyWords == {<<"b","u","y">>, <<"p","u","r","c","h","a","s","e">>, <<"i","n","v","e","s","t">>}
RentWords == {<<"r","e","n","t">>, <<"l","e","a","s","e">>}
LandWords == {<<"l","a","n","d">>, <<"p","l","o","t">>, <<"a","c","r","e">>}

\* the intent detection of the new-user branch
detectType(typesList, lowerMsg) ==
    LET named == firstNamedType(typesList, lowerMsg)
        buy == IF named = <<>> /\ includesAny(lowerMsg, BuyWords)
               THEN findType(typesList, <<"b","u","y">>) ELSE named
        rent == IF buy = <<>> /\ includesAny(lowerMsg, RentWords)
                THEN findType(typesList, <<"r","e","n","t">>) ELSE buy
    IN  IF rent = <<>> /\ includesAny(lowerMsg, LandWords)
        THEN findType(typesList, <<"l","a","n","d">>) ELSE rent

GreetingWords == {<<"h","i">>, <<"h","e","l","l","o">>, <<"h","e","y">>, <<"s","t","a","r","t">>, <<"h","e","l","o">>, <<"r","e","s","t","a","r","t">>}

\* the greeting of the exact-token variant, which does not know "restart"
isGreetingNoRestart(message) == message \in GreetingWords \ {<<"r","e","s","t","a","r","t">>}

\* message.match(/^(hi|hello|hey|start|helo|restart)$/)
isGreeting(message) == message \in GreetingWords

\* The members a plain object {} inherits from Object.prototype under an all
\* lower-case name (the message is lower-cased before the lookup): looking one up
\* yields the inherited function or object, which is truthy.
ObjectPrototype == {<<"c","o","n","s","t","r","u","c","t","o","r">>, <<"_","_","p","r","o","t","o","_","_">>}
InheritedValue(key) == <<"[inherited Object.prototype member]">> \o key

\* typeMapping[message] of stage asked_buy_or_rent: the last value written under
\* the key, else the inherited member, else undefined (the empty sequence)
typeMappingGet(typesList, message) ==
    LET hits == {i \in 1..Len(typesList) :
                    natToString(i) = message \/ toLowerCase(typesList[i]) = message}
        last == CHOOSE i \in hits : \A j \in hits : j <= i
    IN  IF hits # {} THEN typesList[last]
        ELSE IF message \in ObjectPrototype THEN InheritedValue(message)
        ELSE <<>>

\* the name extraction of stage asked_name ("" when nothing matches)
extractName(message) ==
    IF MatchesPhrase(message, <<"m","y"," ","n","a","m","e"," ","i","s"," ">>) THEN PhraseCapture(message, <<"m","y"," ","n","a","m","e"," ","i","s"," ">>)
    ELSE IF MatchesPhrase(message, <<"i"," ","a","m"," ">>) THEN PhraseCapture(message, <<"i"," ","a","m"," ">>)
    ELSE IF MatchesPhrase(message, <<"i","'","m"," ">>) THEN PhraseCapture(message, <<"i","'","m"," ">>)
    ELSE IF MatchesPhrase(message, <<"t","h","i","s"," ","i","s"," ">>) THEN PhraseCapture(message, <<"t","h","i","s"," ","i","s"," ">>)
    ELSE IF IsPlainName(message) THEN message
    ELSE <<>>

\* trim, drop what is neither a letter nor white space, capitalise word by word
cleanName(name) ==
    LET kept == SelectSeq(trim(name), LAMBDA c : IsLetter(c) \/ IsSpace(c))
        words == splitSpaces(kept)
    IN  join([i \in 1..Len(words) |-> capitalize(words[i])])

\* the budget text of stage asked_budget, before it is cleaned
extractBudget(message) ==
    IF MatchesPhrase(message, <<"b","u","d","g","e","t"," ","i","s"," ">>) THEN PhraseCapture(message, <<"b","u","d","g","e","t"," ","i","s"," ">>)
    ELSE IF MatchesPhrase(message, <<"i"," ","h","a","v","e"," ">>) THEN PhraseCapture(message, <<"i"," ","h","a","v","e"," ">>)
    ELSE IF MatchesPhrase(message, <<"a","r","o","u","n","d"," ">>) THEN PhraseCapture(message, <<"a","r","o","u","n","d"," ">>)
    ELSE IF MatchesPhrase(message, <<"a","b","o","u","t"," ">>) THEN PhraseCapture(message, <<"a","b","o","u","t"," ">>)
    ELSE message

BudgetChars == Range(DigitChars) \cup {".", ",", "m", "k", "M", "K"}

\* budgetStr.replace(/[^0-9.,mkMK]/g, '').toUpperCase()
cleanBudget(budgetStr) == toUpperCase(filterChars(budgetStr, BudgetChars))

\* the amount of a budget string of the accepted shape
parseBudget(budgetStr) ==
    LET budget == SelectSeq(budgetStr, LAMBDA c : c # ",")
    IN  IF includes(budget, <<"M">>) THEN Times(parseFloat(budget), 1000000)
        ELSE IF includes(budget, <<"K">>) THEN Times(parseFloat(budget), 1000)
        ELSE parseFloat(budget)

\* the location text of stage asked_location
extractLocation(message) ==
    IF MatchesPhrase(message, <<"i","n"," ">>) THEN PhraseCapture(message, <<"i","n"," ">>)
    ELSE IF MatchesPhrase(message, <<"a","t"," ">>) THEN PhraseCapture(message, <<"a","t"," ">>)
    ELSE message

cleanLocation(location) ==
    LET words == splitSpaces(trim(location))
    IN  join([i \in 1..Len(words) |-> capitalize(words[i])])

\* the bedroom text of stage asked_size
extractBedrooms(message) ==
    IF DigitsThenAt(message, <<"b","e","d">>) # {}
    THEN DigitsFrom(message, Min(DigitsThenAt(message, <<"b","e","d">>)))
    ELSE IF WantNeedAt(message, Range(DigitChars)) # {}
    THEN DigitsFrom(message, Min(WantNeedAt(message, Range(DigitChars))) + 7)
    ELSE message

\* a plot size that is always the whole message
extractPlotSizeWhole(originalMessage, message) == trim(originalMessage)

\* the plot size of stage asked_land_size
extractPlotSize(originalMessage, message) ==
    IF IsPlotShape(message) THEN trim(originalMessage)
    ELSE IF WantNeedAt(message, {c \in Range(message) : IsDot(c)}) # {}
    THEN LET b == Min(WantNeedAt(message, {c \in Range(message) : IsDot(c)})) + 7
             stop == {j \in b..Len(message) : ~IsDot(message[j])}
         IN  SubSeq(message, b, IF stop = {} THEN Len(message) ELSE Min(stop) - 1)
    ELSE trim(originalMessage)

\* the number of stage completed (first) and awaiting_time_slot: word is
\* "property" or "slot"; null becomes 0, which the code treats alike
extractNumber(message, word) ==
    IF MatchesNumberAfter(message, word) THEN digitsValue(NumberAfterCapture(message, word))
    ELSE IF AllDigits(message) THEN digitsValue(message)
    ELSE IF MatchesNumberAfter(message, <<"n","u","m","b","e","r">>)
    THEN digitsValue(NumberAfterCapture(message, <<"n","u","m","b","e","r">>))
    ELSE 0

getHelpMessage(currentStage) ==
    IF currentStage \in {"asked_buy_or_rent", "asked_name", "asked_budget", "asked_location",
                         "asked_size", "asked_land_size", "awaiting_time_slot",
                         "booking_confirmed"}
    THEN [tpl |-> "help", args |-> <<>>, stage |-> currentStage]
    ELSE Reply("Hi! Send 'HI' to start finding your perfect property!", <<>>)

\* a follow-up handler that forgets to clear the flag
followUpKeepsFlag(in, message) ==
    [action |-> IF message = <<"1">> THEN "followup_interested" ELSE "followup_not_interested",
     updateFields |-> ("Status" :> (IF message = <<"1">> THEN "Hot Lead" ELSE "Not Interested"))
                      @@ ("Conversation Stage" :> (IF message = <<"1">> THEN "interested_after_viewing"
                                                   ELSE "not_interested_after_viewing")),
     replyMessage |-> Reply("Thank you for your feedback!", <<>>),
     agentNotification |->
         [message |-> Reply("HOT LEAD ALERT!", <<in.lead_name, in.last_viewed_property>>),
          sendTo |-> in.tenant_whatsapp, leadName |-> in.lead_name,
          leadPhone |-> in.from, propertyName |-> in.last_viewed_property]]

\* a follow-up handler that takes every answer for interest
followUpAlwaysInterested(in, message) ==
    [action |-> "followup_interested",
     updateFields |-> ("Status" :> "Hot Lead")
                      @@ ("Conversation Stage" :> "interested_after_viewing")
                      @@ ("AwaitingFollowUpResponse" :> FALSE),
     replyMessage |-> Reply("Great! Our agent will contact you shortly", <<>>),
     agentNotification |->
         [message |-> Reply("HOT LEAD ALERT!", <<in.lead_name, in.last_viewed_property>>),
          sendTo |-> in.tenant_whatsapp, leadName |-> in.lead_name,
          leadPhone |-> in.from, propertyName |-> in.last_viewed_property]]

\* lines 21-61: the follow-up handler, entered with message "1" or "2"
followUpResponse(in, message) ==
    LET leadName == OrDefault(in.lead_name, <<"t","h","e","r","e">>)
        lastViewedProperty == OrDefault(in.last_viewed_property, <<"a"," ","p","r","o","p","e","r","t","y">>)
    IN  IF message = <<"1">>
        THEN [action |-> "followup_interested",
              updateFields |-> ("Status" :> "Hot Lead")
                               @@ ("Conversation Stage" :> "interested_after_viewing")
                               @@ ("AwaitingFollowUpResponse" :> FALSE),
              replyMessage |-> Reply("Great! Our agent will contact you shortly", <<>>),
              agentNotification |->
                  [message |-> Reply("HOT LEAD ALERT!", <<leadName, lastViewedProperty>>),
                   sendTo |-> in.tenant_whatsapp,
                   leadName |-> leadName,
                   leadPhone |-> in.from,
                   propertyName |-> lastViewedProperty]]
        ELSE [action |-> "followup_not_interested",
              updateFields |-> ("Status" :> "Not Interested")
                               @@ ("Conversation Stage" :> "not_interested_after_viewing")
                               @@ ("AwaitingFollowUpResponse" :> FALSE),
              replyMessage |-> Reply("Thank you for your feedback!", <<>>)]

\* lines 108-187: the new user
newUser(in, originalMessage, companyName, botName, tenantTypes) ==
    LET detectedType == detectType(typesListOf(tenantTypes), toLowerCase(originalMessage))
    IN  IF detectedType # <<>>
        THEN [response EXCEPT
                !.action = "create",
                !.createLead = TRUE,
                !.interest = detectedType,
                !.updateFields = ("Interest" :> detectedType)
                                 @@ ("Conversation Stage" :> "asked_name")
                                 @@ ("Status" :> "New")
                                 @@ ("Phone" :> in.from)
                                 @@ ("Tenant" :> in.tenant_id),
                !.replyMessage = Reply("Welcome. I see you're interested in. What's your name?",
                                       <<companyName, detectedType>>)]
        ELSE [response EXCEPT
                !.action = "create",
                !.createLead = TRUE,
                !.updateFields = ("Conversation Stage" :> "asked_buy_or_rent")
                                 @@ ("Status" :> "New")
                                 @@ ("Phone" :> in.from)
                                 @@ ("Tenant" :> in.tenant_id),
                !.replyMessage = Reply("Welcome. What are you looking for?",
                                       <<companyName, botName, formatOptions(tenantTypes)>>)]

\* lines 192-212: the greeting of an existing user
greeting(companyName, botName, tenantTypes) ==
    [response EXCEPT
        !.action = "update",
        !.updateFields = ("Conversation Stage" :> "asked_buy_or_rent"),
        !.replyMessage = Reply("Welcome back. What are you looking for?",
                               <<companyName, botName, formatOptions(tenantTypes)>>)]

\* a rejection that also resets the stage
InvalidResetsStage(reply) ==
    [response EXCEPT !.action = "invalid", !.replyMessage = reply,
                     !.updateFields = ("Conversation Stage" :> "asked_buy_or_rent")]

Invalid(reply) == [response EXCEPT !.action = "invalid", !.replyMessage = reply]

\* lines 217-252
stagePropertyType(message, tenantTypes) ==
    LET selectedType == typeMappingGet(typesListOf(tenantTypes), message)
    IN  IF selectedType = <<>>
        THEN Invalid(Reply("Please choose from the options below:",
                           <<formatOptions(tenantTypes)>>))
        ELSE [response EXCEPT
                !.action = "update",
                !.updateFields = ("Interest" :> selectedType)
                                 @@ ("Conversation Stage" :> "asked_name"),
                !.replyMessage = Reply("Great choice! What's your name?", <<>>)]

\* lines 257-308
stageName(message) ==
    LET name == extractName(message)
    IN  IF Len(name) < 2
        THEN Invalid(Reply("I didn't quite catch that. Please enter your name", <<>>))
        ELSE [response EXCEPT
                !.action = "update",
                !.updateFields = ("Name" :> cleanName(name))
                                 @@ ("Conversation Stage" :> "asked_budget"),
                !.replyMessage = Reply("Nice to meet you! What's your budget?",
                                       <<cleanName(name)>>)]

\* a budget stage that asks for the location itself
stageBudgetAsksLocation(in, message) ==
    LET budgetStr == cleanBudget(extractBudget(message))
    IN  IF ~IsBudgetShape(budgetStr)
        THEN Invalid(Reply("I didn't understand that budget.", <<>>))
        ELSE [response EXCEPT
                !.action = "fetch_locations",
                !.updateFields = ("Budget" :> numberToString(parseBudget(budgetStr)))
                                 @@ ("Conversation Stage" :> "asked_location"),
                !.interest = in.lead_interest]

\* lines 313-367
stageBudget(in, message) ==
    LET budgetStr == cleanBudget(extractBudget(message))
    IN  IF ~IsBudgetShape(budgetStr)
        THEN Invalid(Reply("I didn't understand that budget.", <<>>))
        ELSE [response EXCEPT
                !.action = "fetch_locations",
                !.updateFields = ("Budget" :> numberToString(parseBudget(budgetStr)))
                                 @@ ("Conversation Stage" :> "fetching_locations"),
                !.interest = in.lead_interest,
                !.replyMessage = Reply("Great! Let me check available areas...", <<>>)]

\* a location stage that goes back to the location lookup
stageLocationBack(in, message) ==
    [response EXCEPT
        !.action = "fetch_sizes",
        !.updateFields = ("Location" :> cleanLocation(extractLocation(message)))
                         @@ ("Conversation Stage" :> "fetching_locations")]

\* lines 372-412
stageLocation(in, message) ==
    LET location == extractLocation(message)
    IN  IF ~HasTwoLetters(location)
        THEN Invalid(Reply("Please choose a location from the list above.", <<>>))
        ELSE [response EXCEPT
                !.action = "fetch_sizes",
                !.updateFields = ("Location" :> cleanLocation(location))
                                 @@ ("Conversation Stage" :> "fetching_sizes"),
                !.interest = in.lead_interest,
                !.location = cleanLocation(location),
                !.replyMessage = Reply("Perfect! Checking what's available in",
                                       <<cleanLocation(location)>>)]

\* lines 417-470
stageSize(in, message) ==
    LET bedrooms == parseInt(extractBedrooms(message))
    IN  IF bedrooms = NaN \/ bedrooms.num < 1 \/ bedrooms.num > 20
        THEN Invalid(Reply("Please enter the number of bedrooms you need.", <<>>))
        ELSE LET finalInterest == OrDefault(in.lead_interest, <<"N","o","t"," ","s","p","e","c","i","f","i","e","d">>)
                 finalBudget == OrDefault(in.lead_budget, <<"N","o","t"," ","s","p","e","c","i","f","i","e","d">>)
                 finalLocation == OrDefault(in.lead_location, <<"N","o","t"," ","s","p","e","c","i","f","i","e","d">>)
             IN  [response EXCEPT
                    !.action = "update",
                    !.updateFields = ("Size" :> (natToString(bedrooms.num) \o <<" ","b","e","d","r","o","o","m">>))
                                     @@ ("Conversation Stage" :> "completed")
                                     @@ ("Status" :> "Contacted"),
                    !.interest = finalInterest,
                    !.bedrooms = bedrooms.num,
                    !.requestedBedrooms = bedrooms.num,
                    !.location = finalLocation,
                    !.searchProperties = TRUE,
                    !.replyMessage = Reply("Got it! Let me find the best matches for you...",
                                           <<finalInterest, finalBudget, finalLocation,
                                             natToString(bedrooms.num)>>)]

\* lines 475-527
stageLandSize(in, originalMessage, message) ==
    LET plotSize == extractPlotSize(originalMessage, message)
    IN  IF Len(plotSize) < 2
        THEN Invalid(Reply("Please enter the plot size you're interested in.", <<>>))
        ELSE LET finalInterest == OrDefault(in.lead_interest, <<"L","a","n","d">>)
                 finalBudget == OrDefault(in.lead_budget, <<"N","o","t"," ","s","p","e","c","i","f","i","e","d">>)
                 finalLocation == OrDefault(in.lead_location, <<"N","o","t"," ","s","p","e","c","i","f","i","e","d">>)
             IN  [response EXCEPT
                    !.action = "update",
                    !.updateFields = ("Size" :> plotSize)
                                     @@ ("Conversation Stage" :> "completed")
                                     @@ ("Status" :> "Contacted"),
                    !.interest = finalInterest,
                    !.location = finalLocation,
                    !.plotSize = plotSize,
                    !.searchProperties = TRUE,
                    !.replyMessage = Reply("Got it! Let me find the best land matches for you...",
                                           <<finalInterest, finalBudget, finalLocation, plotSize>>)]

\* a selection that takes the number as it is, zero included
stageCompletedAnyNumber(message) ==
    [response EXCEPT
        !.action = "booking",
        !.updateFields = ("Conversation Stage" :> "awaiting_time_slot")
                         @@ ("Selected Property Number" :> extractNumber(message, <<"p","r","o","p","e","r","t","y">>)),
        !.propertyNumber = extractNumber(message, <<"p","r","o","p","e","r","t","y">>)]

\* lines 532-561
stageCompleted(message) ==
    LET propertyNumber == extractNumber(message, <<"p","r","o","p","e","r","t","y">>)
    IN  IF propertyNumber = 0
        THEN Invalid(Reply("Please reply with the property number you want to view.", <<>>))
        ELSE [response EXCEPT
                !.action = "booking",
                !.updateFields = ("Conversation Stage" :> "awaiting_time_slot")
                                 @@ ("Selected Property Number" :> propertyNumber),
                !.propertyNumber = propertyNumber,
                !.replyMessage = Reply("Great choice! Let me check availability for you...", <<>>)]

\* a slot choice that takes the number as it is, zero included
stageTimeSlotAnyNumber(message) ==
    [response EXCEPT
        !.action = "create_booking",
        !.updateFields = ("Conversation Stage" :> "booking_confirmed")
                         @@ ("Selected Time Slot" :> extractNumber(message, <<"s","l","o","t">>)),
        !.selectedTime = JsNumber(extractNumber(message, <<"s","l","o","t">>)),
        !.bookingRequest = TRUE]

\* lines 566-596
stageTimeSlot(message) ==
    LET slotNumber == extractNumber(message, <<"s","l","o","t">>)
    IN  IF slotNumber = 0
        THEN Invalid(Reply("Please reply with the slot number.", <<>>))
        ELSE [response EXCEPT
                !.action = "create_booking",
                !.updateFields = ("Conversation Stage" :> "booking_confirmed")
                                 @@ ("Selected Time Slot" :> slotNumber),
                !.selectedTime = JsNumber(slotNumber),
                !.bookingRequest = TRUE,
                !.replyMessage = Reply("Creating your booking...", <<>>)]

\* a cancellation that writes the status only
cancelBookingStatusOnly ==
    [response EXCEPT
        !.action = "cancel_booking",
        !.updateFields = ("Status" :> "Cancelled")]

\* lines 601-609
cancelBooking ==
    [response EXCEPT
        !.action = "cancel_booking",
        !.updateFields = ("Conversation Stage" :> "booking_cancelled")
                         @@ ("Status" :> "Cancelled"),
        !.replyMessage = Reply("Cancelling your booking...", <<>>)]

\* a lead test that takes a stored stage for a known lead
leadExistsByStage(in) == (IsString(in.lead_id) /\ Len(in.lead_id.v) > 0) \/ in.lead_stage # ""

\* input.lead_id && input.lead_id.length > 0 (a number has no length)
leadExistsOf(in) == IsString(in.lead_id) /\ Len(in.lead_id.v) > 0

\* a cancel test that forgets the stage
matchesCancelAnyStage(stage, message) == includes(message, <<"c","a","n","c","e","l">>)

\* stage === "booking_confirmed" && message.match(/cancel/i)
matchesCancel(stage, message) == stage = "booking_confirmed" /\ includes(message, <<"c","a","n","c","e","l">>)

\* a follow-up test that takes every message that starts with a digit
isFollowUpReplyAnyNumber(message) == Len(message) > 0 /\ IsDigit(message[1])

\* message === '1' || message === '2'
isFollowUpReply(message) == message = <<"1">> \/ message = <<"2">>

\* The body of the try block.  The result is the returned descriptor, or Thrown
\* where a statement raises a TypeError: input.message of null, toLowerCase of a
\* message that is no string, split of tenant types that are no string.
tryBody(in) ==
    IF in.t = "null" THEN Thrown
    ELSE IF Truthy(in.message) /\ ~IsString(in.message) THEN Thrown
    ELSE
    LET originalMessage == IF Truthy(in.message) THEN in.message.v ELSE <<>>
        message == trim(toLowerCase(originalMessage))
        leadExists == leadExistsOf(in)
        stage == in.lead_stage
        awaitingFollowUp == in.awaiting_followup_response
        botName == OrDefault(in.tenant_bot_name, <<"P","r","o","p","e","r","t","y","B","o","t">>)
        companyName == OrDefault(in.tenant_company_name, <<"o","u","r"," ","c","o","m","p","a","n","y">>)
        typesOk == ~Truthy(in.tenant_property_types) \/ IsString(in.tenant_property_types)
        tenantTypes == IF Truthy(in.tenant_property_types) /\ typesOk
                       THEN in.tenant_property_types.v ELSE <<"B","u","y",","," ","R","e","n","t">>
    IN  IF leadExists /\ awaitingFollowUp /\ isFollowUpReply(message)
        THEN followUpResponse(in, message)
        ELSE IF ~leadExists
        THEN IF typesOk THEN newUser(in, originalMessage, companyName, botName, tenantTypes)
             ELSE Thrown
        ELSE IF isGreeting(message)
        THEN IF typesOk THEN greeting(companyName, botName, tenantTypes) ELSE Thrown
        ELSE IF stage = "asked_buy_or_rent"
        THEN IF typesOk THEN stagePropertyType(message, tenantTypes) ELSE Thrown
        ELSE IF stage = "asked_name" THEN stageName(message)
        ELSE IF stage = "asked_budget" THEN stageBudget(in, message)
        ELSE IF stage = "asked_location" THEN stageLocation(in, message)
        ELSE IF stage = "asked_size" THEN stageSize(in, message)
        ELSE IF stage = "asked_land_size" THEN stageLandSize(in, originalMessage, message)
        ELSE IF stage = "completed" THEN stageCompleted(message)
        ELSE IF stage = "awaiting_time_slot" THEN stageTimeSlot(message)
        ELSE IF matchesCancel(stage, message) THEN cancelBooking
        ELSE Invalid(getHelpMessage(stage))

\* a catch block that lets the fault escape
catchErrorRethrows(result) == result

\* the catch block: whatever the body throws becomes the error descriptor
catchError(result) == IF "thrown" \in DOMAIN result THEN ErrorDescriptor ELSE result

\* a router that remembers the answer it gave last
handleMessageRemembers(in) ==
    IF "action" \in DOMAIN out /\ out.action = "invalid" THEN ErrorDescriptor
    ELSE catchError(tryBody(in))

handleMessage(in) == catchError(tryBody(in))

(***************************************************************************)
(* The exact-token variant of handleMessage (the second handleMessage.js)   *)
(***************************************************************************)
\* the response object of step 4 of the exact-token variant
strictResponse ==
    [action |-> "", updateFields |-> NoFields, replyMessage |-> Reply("", <<>>),
     createLead |-> FALSE, searchProperties |-> FALSE, bookingRequest |-> FALSE,
     interest |-> <<>>, bedrooms |-> 0, requestedBedrooms |-> 0, propertyNumber |-> 0,
     location |-> <<>>, selectedTime |-> JsString(<<>>), plotSize |-> <<>>]

\* types.split(',').map(t => "* " + t.trim()).join('\n')
strictFormatOptions(types) ==
    LET list == typesListOf(types)
    IN  joinLines([i \in 1..Len(list) |-> <<"*", " ">> \o list[i]])

\* word.charAt(0).toUpperCase() + word.slice(1)
upperFirst(word) ==
    IF Len(word) = 0 THEN <<>> ELSE <<toUpperChar(word[1])>> \o Tail(word)

\* message.split(' ').map(upperFirst).join(' ')
upperFirstWords(message) ==
    LET words == split(message, " ")
    IN  join([i \in 1..Len(words) |-> upperFirst(words[i])])

\* /^(hi|hello|hey|start|helo)$/
strictIsGreeting(message) == message \in {<<"h","i">>, <<"h","e","l","l","o">>, <<"h","e","y">>, <<"s","t","a","r","t">>, <<"h","e","l","o">>}

AllLetters(s) == \A i \in 1..Len(s) : IsLetter(s[i])

\* a name test that takes every message
strictIsNameAnything(message) == TRUE

\* /^[a-zA-Z]{2,}(\s[a-zA-Z]{2,})?$/
strictIsName(message) ==
    \/ (Len(message) >= 2 /\ AllLetters(message))
    \/ \E i \in 3..(Len(message) - 2) :
          /\ IsSpace(message[i])
          /\ AllLetters(SubSeq(message, 1, i - 1))
          /\ AllLetters(From(message, i + 1))

\* /^\s*[\d.,]+[mMkK]?\s*$/
strictIsBudget(message) ==
    LET core == trim(message)
        body == IF Len(core) > 0 /\ core[Len(core)] \in {"m", "M", "k", "K"}
                THEN SubSeq(core, 1, Len(core) - 1) ELSE core
    IN  Len(body) > 0 /\ \A i \in 1..Len(body) : IsDigit(body[i]) \/ body[i] \in {".", ","}

\* /^[a-zA-Z\s]{3,}$/
strictIsLocation(message) ==
    Len(message) >= 3 /\ \A i \in 1..Len(message) : IsLetter(message[i]) \/ IsSpace(message[i])

\* /^\s*\d+\s*$/
strictIsSize(message) == AllDigits(trim(message))

\* /^property\s*\d+$/i
strictIsProperty(message) ==
    /\ StartsAt(toLowerCase(message), <<"p","r","o","p","e","r","t","y">>, 1)
    /\ AllDigits(From(message, SkipSpaces(message, Len(<<"p","r","o","p","e","r","t","y">>) + 1)))

\* message.match(/\d+/)[0]: the leftmost run of digits
firstDigits(message) ==
    DigitsFrom(message, Min({i \in 1..Len(message) : IsDigit(message[i])}))

strictNewUser(in, companyName, botName, tenantTypes) ==
    [strictResponse EXCEPT
        !.action = "create",
        !.createLead = TRUE,
        !.updateFields = ("Conversation Stage" :> "asked_buy_or_rent")
                         @@ ("Status" :> "New")
                         @@ ("Phone" :> in.from)
                         @@ ("Tenant" :> in.tenant_id),
        !.replyMessage = Reply("Hi! Welcome. What are you looking for?",
                               <<companyName, botName, strictFormatOptions(tenantTypes)>>)]

strictGreeting(companyName, botName, tenantTypes) ==
    [strictResponse EXCEPT
        !.action = "update",
        !.updateFields = ("Conversation Stage" :> "asked_buy_or_rent"),
        !.replyMessage = Reply("Hi! Welcome back. What are you looking for?",
                               <<companyName, botName, strictFormatOptions(tenantTypes)>>)]

strictInvalid(reply) == [strictResponse EXCEPT !.action = "invalid", !.replyMessage = reply]

strictPropertyType(message, tenantTypes) ==
    LET list == typesListOf(tenantTypes)
        types == [i \in 1..Len(list) |-> toLowerCase(list[i])]
    IN  IF message \notin Range(types)
        THEN strictInvalid(Reply("Please choose one of the listed options.", <<>>))
        ELSE [strictResponse EXCEPT
                !.action = "update",
                !.updateFields = ("Interest" :> upperFirst(message))
                                 @@ ("Conversation Stage" :> "asked_name"),
                !.replyMessage = Reply("Great choice! What's your name?", <<>>)]

strictName(message) ==
    [strictResponse EXCEPT
        !.action = "update",
        !.updateFields = ("Name" :> upperFirstWords(message))
                         @@ ("Conversation Stage" :> "asked_budget"),
        !.replyMessage = Reply("Nice to meet you! What's your budget?",
                               <<upperFirstWords(message)>>)]

strictBudget(in, message) ==
    [strictResponse EXCEPT
        !.action = "fetch_locations",
        !.updateFields = ("Budget" :> numberToString(parseBudget(toUpperCase(message))))
                         @@ ("Conversation Stage" :> "fetching_locations"),
        !.interest = in.lead_interest,
        !.replyMessage = Reply("Great! Let me check available areas...", <<>>)]

strictLocation(in, message) ==
    [strictResponse EXCEPT
        !.action = "fetch_sizes",
        !.updateFields = ("Location" :> upperFirstWords(message))
                         @@ ("Conversation Stage" :> "fetching_sizes"),
        !.interest = in.lead_interest,
        !.location = upperFirstWords(message),
        !.replyMessage = Reply("Perfect! Checking what's available in...",
                               <<upperFirstWords(message)>>)]

strictSize(in, message) ==
    LET bedrooms == trim(message)
        finalInterest == OrDefault(in.lead_interest, <<"N","o","t"," ","s","p","e","c","i","f","i","e","d">>)
        finalBudget == OrDefault(in.lead_budget, <<"N","o","t"," ","s","p","e","c","i","f","i","e","d">>)
        finalLocation == OrDefault(in.lead_location, <<"N","o","t"," ","s","p","e","c","i","f","i","e","d">>)
    IN  [strictResponse EXCEPT
            !.action = "update",
            !.updateFields = ("Size" :> (bedrooms \o <<" ","b","e","d","r","o","o","m">>))
                             @@ ("Conversation Stage" :> "completed")
                             @@ ("Status" :> "Contacted"),
            !.interest = finalInterest,
            !.bedrooms = parseInt(bedrooms).num,
            !.requestedBedrooms = parseInt(bedrooms).num,
            !.location = finalLocation,
            !.searchProperties = TRUE,
            !.replyMessage = Reply("Got it! Let me find the best matches for you...",
                                   <<finalInterest, finalBudget, finalLocation, bedrooms>>)]

strictLandSize(in, message) ==
    LET plotSize == trim(message)
        finalInterest == OrDefault(in.lead_interest, <<"L","a","n","d">>)
        finalBudget == OrDefault(in.lead_budget, <<"N","o","t"," ","s","p","e","c","i","f","i","e","d">>)
        finalLocation == OrDefault(in.lead_location, <<"N","o","t"," ","s","p","e","c","i","f","i","e","d">>)
    IN  [strictResponse EXCEPT
            !.action = "update",
            !.updateFields = ("Size" :> plotSize)
                             @@ ("Conversation Stage" :> "completed")
                             @@ ("Status" :> "Contacted"),
            !.interest = finalInterest,
            !.location = finalLocation,
            !.plotSize = plotSize,
            !.searchProperties = TRUE,
            !.replyMessage = Reply("Got it! Let me find the best land matches for you...",
                                   <<finalInterest, finalBudget, finalLocation, plotSize>>)]

strictCompleted(message) ==
    LET propertyNumber == parseInt(firstDigits(message)).num
    IN  [strictResponse EXCEPT
            !.action = "booking",
            !.updateFields = ("Conversation Stage" :> "awaiting_time_slot")
                             @@ ("Selected Property Number" :> propertyNumber),
            !.propertyNumber = propertyNumber,
            !.replyMessage = Reply("Great choice! Let me check availability for you...", <<>>)]

strictTimeSlot(message) ==
    LET timeSlotNumber == parseInt(message).num
    IN  [strictResponse EXCEPT
            !.action = "create_booking",
            !.updateFields = ("Conversation Stage" :> "booking_confirmed")
                             @@ ("Selected Time Slot" :> timeSlotNumber),
            !.selectedTime = JsNumber(timeSlotNumber),
            !.bookingRequest = TRUE,
            !.replyMessage = Reply("Creating your booking...", <<>>)]

strictCancel ==
    [strictResponse EXCEPT
        !.action = "cancel_booking",
        !.updateFields = ("Conversation Stage" :> "booking_cancelled")
                         @@ ("Status" :> "Cancelled"),
        !.replyMessage = Reply("Cancelling your booking...", <<>>)]

strictHelpMessage(currentStage) ==
    IF currentStage \in {"asked_buy_or_rent", "asked_name", "asked_budget", "asked_location",
                         "asked_size", "asked_land_size", "awaiting_time_slot"}
    THEN [tpl |-> "strict help", args |-> <<>>, stage |-> currentStage]
    ELSE Reply("Hi! Send 'hi' to start.", <<>>)

\* The body of the try block of the exact-token variant: the returned descriptor,
\* or Thrown where a statement raises a TypeError.
strictBody(in) ==
    IF in.t = "null" THEN Thrown
    ELSE IF Truthy(in.message) /\ ~IsString(in.message) THEN Thrown
    ELSE
    LET message == trim(toLowerCase(IF Truthy(in.message) THEN in.message.v ELSE <<>>))
        leadExists == leadExistsOf(in)
        stage == in.lead_stage
        botName == OrDefault(in.tenant_bot_name, <<"P","r","o","p","e","r","t","y","B","o","t">>)
        companyName == OrDefault(in.tenant_company_name, <<"o","u","r"," ","c","o","m","p","a","n","y">>)
        typesOk == ~Truthy(in.tenant_property_types) \/ IsString(in.tenant_property_types)
        tenantTypes == IF Truthy(in.tenant_property_types) /\ typesOk
                       THEN in.tenant_property_types.v ELSE <<"B","u","y",","," ","R","e","n","t">>
    IN  IF ~leadExists
        THEN IF typesOk THEN strictNewUser(in, companyName, botName, tenantTypes) ELSE Thrown
        ELSE IF strictIsGreeting(message)
        THEN IF typesOk THEN strictGreeting(companyName, botName, tenantTypes) ELSE Thrown
        ELSE IF stage = "asked_buy_or_rent"
        THEN IF typesOk THEN strictPropertyType(message, tenantTypes) ELSE Thrown
        ELSE IF stage = "asked_name" /\ strictIsName(message) THEN strictName(message)
        ELSE IF stage = "asked_budget" /\ strictIsBudget(message) THEN strictBudget(in, message)
        ELSE IF stage = "asked_location" /\ strictIsLocation(message)
        THEN strictLocation(in, message)
        ELSE IF stage = "asked_size" /\ strictIsSize(message) THEN strictSize(in, message)
        ELSE IF stage = "asked_land_size" THEN strictLandSize(in, message)
        ELSE IF stage = "completed" /\ strictIsProperty(message) THEN strictCompleted(message)
        ELSE IF stage = "awaiting_time_slot" /\ AllDigits(message) THEN strictTimeSlot(message)
        ELSE IF message = <<"c","a","n","c","e","l">> /\ stage = "booking_confirmed" THEN strictCancel
        ELSE strictInvalid(strictHelpMessage(stage))

\* the catch block of the exact-token variant
strictCatch(result) == IF "thrown" \in DOMAIN result THEN ErrorDescriptor ELSE result

handleMessageStrict(in) == strictCatch(strictBody(in))

(***************************************************************************)
(* The lead record, the tenant configuration and the router's input        *)
(***************************************************************************)
\* no record of the sender in the Leads table yet
NoLead == [id |-> <<>>, fields |-> NoFields]

Field(l, name, default) == IF name \in DOMAIN l.fields THEN l.fields[name] ELSE default

stageOf(l) == Field(l, "Conversation Stage", "")

\* The flat input record of one inbound message: the message, the sender, the
\* lead snapshot and the tenant configuration.
BuildInput(l, tn, message, from) ==
    [t |-> "object",
     message |-> message,
     from |-> from,
     lead_id |-> IF l.id = <<>> THEN JsUndefined ELSE JsString(l.id),
     lead_stage |-> stageOf(l),
     lead_name |-> Field(l, "Name", <<>>),
     lead_interest |-> Field(l, "Interest", <<>>),
     lead_budget |-> Field(l, "Budget", <<>>),
     lead_location |-> Field(l, "Location", <<>>),
     lead_size |-> Field(l, "Size", <<>>),
     awaiting_followup_response |-> Field(l, "AwaitingFollowUpResponse", FALSE),
     last_viewed_property |-> Field(l, "Last Viewed Property", <<>>),
     tenant_id |-> tn.id,
     tenant_bot_name |-> tn.bot_name,
     tenant_company_name |-> tn.company_name,
     tenant_property_types |-> tn.property_types,
     tenant_whatsapp |-> tn.whatsapp]

\* The caller persists the descriptor: a new lead record with the fields of a
\* "create", else the fields written over those of the existing record.
ApplyUpdate(l, o) ==
    IF "updateFields" \notin DOMAIN o THEN l
    ELSE IF "createLead" \in DOMAIN o /\ o.createLead
    THEN [id |-> <<"r","e","c","1">>, fields |-> o.updateFields]
    ELSE IF l.id = <<>> THEN l
    ELSE [l EXCEPT !.fields = o.updateFields @@ l.fields]

NoInput == [t |-> "none"]
NoOut == [action |-> "none"]

(***************************************************************************)
(* The calendar, the Bookings table and the create-booking requests        *)
(***************************************************************************)
Properties == {"propA", "propB"}

LeadIds == {"rec1", "rec2"}

ReqIds == {"r1", "r2"}

\* slotMap of the requests: slot number -> "start|end", times in hours; slots 1 and 2
\* and slots 2 and 3 share an hour, slot 3 starts when slot 1 ends
SlotMap == <<[start |-> 1, end |-> 3], [start |-> 2, end |-> 4], [start |-> 3, end |-> 5]>>

\* the slot numbers a request may carry: 0 stands for a missing number, the last one
\* is not in the slot map
SlotNumbers == 0..(Len(SlotMap) + 1)

\* periods that only collide when they are the same slot
OverlapsSameSlot(aStart, aEnd, bStart, bEnd) == aStart = bStart /\ aEnd = bEnd

\* two periods share time: each starts before the other ends
Overlaps(aStart, aEnd, bStart, bEnd) == aStart < bEnd /\ aEnd > bStart

\* calendar.events.list({timeMin: slotStart, timeMax: slotEnd, q: propertyId})
calendarConflicts(evs, propertyId, slot) ==
    {e \in evs : e.property = propertyId /\ Overlaps(e.start, e.end, slot.start, slot.end)}

\* base('Bookings').select: bookings of the property, not cancelled, that start
\* before the slot ends and end after it starts
airtableConflicts(bks, propertyId, slot) ==
    {b \in bks : /\ b.property = propertyId
                 /\ b.status # "Cancelled"
                 /\ Overlaps(b.start, b.end, slot.start, slot.end)}

\* a conflict test that lets every request through
slotTakenNever(calendarHasConflict, airtableHasConflict) == FALSE

\* calendarHasConflict || airtableHasConflict
slotTaken(calendarHasConflict, airtableHasConflict) ==
    calendarHasConflict \/ airtableHasConflict

\* the calendar event and the booking record of request r
EventOf(r, q) ==
    [id |-> r, property |-> q.propertyId,
     start |-> SlotMap[q.slotNumber].start, end |-> SlotMap[q.slotNumber].end]

BookingOf(r, q) ==
    [id |-> r, lead |-> q.leadId, property |-> q.propertyId,
     start |-> SlotMap[q.slotNumber].start, end |-> SlotMap[q.slotNumber].end,
     status |-> "Scheduled", eventId |-> r]

\* a request not yet sent; seen is the set of bookings that were in the table when
\* the request read it
NoRequest(r) ==
    [pc |-> "idle", leadId |-> "", propertyId |-> "", slotNumber |-> 0,
     calendarHasConflict |-> FALSE, airtableHasConflict |-> FALSE, seen |-> {},
     answer |-> "none"]

\* nothing booked, no request sent, every lead has chosen a slot
\* no available-slots-v2 request
NoSlotRequest == [pc |-> "idle"]

\* no check-notifications request
NoCheck == [pc |-> "idle", now |-> 0, all |-> {}, success |-> FALSE]

\* no notification flag set, no check made; sent holds the pairs of booking and
\* type whose flag (Reminder12hSent, Reminder1hSent, FollowUpSent) is true
NoNotifications == [now |-> 0, sent |-> {}, check |-> NoCheck]

BookingInit ==
    /\ events = {}
    /\ bookings = {}
    /\ leads = [l \in LeadIds |-> [stage |-> "booking_confirmed", status |-> "Contacted"]]
    /\ reqs = [r \in ReqIds |-> NoRequest(r)]
    /\ slotReq = NoSlotRequest
    /\ notif = NoNotifications

(***************************************************************************)
(* Bounded sets of inputs                                                  *)
(***************************************************************************)
Stages ==
    {"asked_buy_or_rent", "asked_name", "asked_budget", "fetching_locations",
     "asked_location", "fetching_sizes", "asked_size", "asked_land_size", "completed",
     "awaiting_time_slot", "booking_confirmed", "booking_cancelled",
     "interested_after_viewing", "not_interested_after_viewing"}

Phone == "254700000001"

Tenant(types) ==
    [id |-> "tenantA", bot_name |-> <<"A","m","y">>, company_name |-> <<>>,
     property_types |-> types, whatsapp |-> <<"2","5","4","7","1","1","1","1","1","1","1","1">>]

\* the property types a tenant may have configured (absent: "Buy, Rent" applies)
TypeConfigs ==
    {JsUndefined, JsString(<<"B","u","y",","," ","R","e","n","t",","," ","L","a","n","d">>), JsString(<<"R","e","n","t",",","B","u","y">>),
     JsString(<<" ","S","a","l","e"," ",","," ","R","e","n","t","a","l"," ","F","l","a","t","s">>)}

\* messages as the sender typed them
Messages ==
    {<<>>, <<"h","i">>, <<" ","H","i"," ">>, <<"H","E","L","L","O">>, <<"h","e","y">>, <<"s","t","a","r","t">>, <<"h","e","l","o">>, <<"r","e","s","t","a","r","t">>, <<"h","i"," ","t","h","e","r","e">>,
     <<"1">>, <<"2">>, <<" ","1"," ">>, <<"2","\n">>, <<"3">>, <<"0">>, <<"2","5">>,
     <<"b","u","y">>, <<"R","e","n","t">>, <<"l","a","n","d">>, <<"s","a","l","e">>, <<"r","e","n","t","a","l"," ","f","l","a","t","s">>,
     <<"I"," ","w","a","n","t"," ","t","o"," ","r","e","n","t">>, <<"l","o","o","k","i","n","g"," ","t","o"," ","p","u","r","c","h","a","s","e">>, <<"l","e","a","s","e"," ","o","r"," ","b","u","y">>, <<"i","n","v","e","s","t"," ","o","r"," ","l","e","a","s","e">>, <<"b","u","y"," ","o","r"," ","r","e","n","t">>,
     <<"a"," ","p","l","o","t">>, <<"c","o","n","s","t","r","u","c","t","o","r">>, <<"_","_","p","r","o","t","o","_","_">>,
     <<"j","o","h","n"," ","s","m","i","t","h">>, <<"m","y"," ","n","a","m","e"," ","i","s"," ","b","o","b">>, <<"i","'","m"," ","a","l">>, <<"x">>, <<"J","0","h","n">>, <<"m","y"," ","n","a","m","e"," ","i","s"," ","4","2">>, <<"i"," ","a","m"," ","j">>,
     <<"5","M">>, <<"5","0","0","K">>, <<"1",",","2","0","0",",","0","0","0">>, <<"a","b","c">>, <<"b","u","d","g","e","t"," ","i","s"," ","2",".","5","m">>, <<".">>,
     <<"W","e","s","t","l","a","n","d","s">>, <<"i","n"," ","k","a","r","e","n">>, <<"a","1">>, <<"M","a","i","n"," ","S","t","r","e","e","t">>, <<"i","n"," ","5">>,
     <<"3"," ","b","e","d">>, <<"i"," ","n","e","e","d"," ","4">>, <<"3"," ","r","o","o","m","s">>, <<"1",",","0","0","0">>, <<"0","x","1","0">>, <<"-","3">>, <<"2","1"," ","b","e","d">>,
     <<"5","0","x","1","0","0">>, <<"1","/","4"," ","A","c","r","e">>, <<"i"," ","w","a","n","t"," ","h","a","l","f">>,
     <<"p","r","o","p","e","r","t","y"," ","2">>, <<"P","r","o","p","e","r","t","y","1">>, <<"n","u","m","b","e","r"," ","3">>, <<"s","l","o","t"," ","2">>, <<"s","l","o","t"," ","0">>, <<"p","r","o","p","e","r","t","y"," ","0">>, <<"i"," ","n","e","e","d"," ","5">>,
     <<"c","a","n","c","e","l">>, <<"p","l","e","a","s","e"," ","C","A","N","C","E","L"," ","i","t">>, <<"?","?","?">>}

\* the short conversation vocabulary of the lead life cycle
ConvMessages == {<<"h","i">>, <<"1">>, <<"2">>, <<"k","a","r","e","n">>, <<"c","a","n","c","e","l"," ","i","n"," ","?">>}

\* lead snapshots the record store may hold: any stage, the flag set or not, the
\* earlier answers present or not
LeadAt(stage, awaiting, filled) ==
    [id |-> <<"r","e","c","1">>,
     fields |-> ("Conversation Stage" :> stage) @@ ("AwaitingFollowUpResponse" :> awaiting)
                @@ ("Status" :> "New") @@ ("Phone" :> Phone) @@ ("Tenant" :> "tenantA")
                @@ (IF filled
                    THEN ("Name" :> <<"M","a","r","y"," ","J","a","n","e">>) @@ ("Interest" :> <<"R","e","n","t">>)
                         @@ ("Budget" :> <<"5","0","0","0","0","0","0">>) @@ ("Location" :> <<"K","a","r","e","n">>)
                         @@ ("Last Viewed Property" :> <<"K","a","r","e","n"," ","V","i","l","l","a">>)
                    ELSE NoFields)]

LeadSnapshots ==
    {NoLead} \cup {LeadAt(st, aw, f) : st \in Stages \cup {""}, aw \in BOOLEAN, f \in BOOLEAN}

\* what the message field may hold: a text, nothing, or a value of another type
MessageValues == {JsString(m) : m \in Messages} \cup {JsUndefined, JsNumber(5), JsNumber(0)}

\* what the property types of the tenant may hold
TypeValues == TypeConfigs \cup {JsNumber(7)}

\* the lead id sent along with the snapshot of lead l: its id, or none although
\* the other lead fields are filled
LeadIdValues(l) ==
    IF l.id = <<>> THEN {JsUndefined, JsString(<<>>), JsNumber(5)}
    ELSE {JsString(l.id), JsUndefined}

NullInput == [t |-> "null"]

\* the fields have the types the router expects
WellFormed(in) ==
    /\ in.t = "object"
    /\ in.message.t \in {"string", "undefined"}
    /\ in.tenant_property_types.t \in {"string", "undefined"}
    /\ in.lead_id.t \in {"string", "undefined"}

(***************************************************************************)
(* The router as a function: one call on an input drawn from the bounded   *)
(* sets                                                                    *)
(***************************************************************************)
RouterInit ==
    /\ \E l \in LeadSnapshots, ty \in TypeValues, m \in MessageValues :
          /\ tenant = Tenant(ty)
          /\ \E id \in LeadIdValues(l) :
                /\ input \in {[BuildInput(l, tenant, m, Phone) EXCEPT !.lead_id = id]}
                            \cup (IF l = NoLead /\ m = JsUndefined THEN {NullInput} ELSE {})
                /\ lead = IF id = JsString(l.id) THEN l ELSE NoLead
    /\ out = NoOut
    /\ pc = "ready"
    /\ BookingInit

RouterCall ==
    /\ pc = "ready"
    /\ out' = handleMessage(input)
    /\ lead' = ApplyUpdate(lead, out')
    /\ pc' = "done"
    /\ UNCHANGED <<tenant, input>>
    /\ UNCHANGED bookingVars
    /\ UNCHANGED slotVars
    /\ UNCHANGED notifVars

RouterNext == RouterCall

SpecRouter == RouterInit /\ [][RouterNext]_vars

(***************************************************************************)
(* The life cycle of one lead: inbound messages routed and persisted, and  *)
(* the endpoints around the router that write the lead                     *)
(***************************************************************************)
Init ==
    /\ lead = NoLead
    /\ tenant = Tenant(JsString(<<"L","a","n","d",","," ","R","e","n","t">>))
    /\ input = NoInput
    /\ out = NoOut
    /\ pc = "idle"
    /\ BookingInit

\* POST /api/handle-message, and the caller persisting the descriptor
Receive(m) ==
    /\ pc = "idle"
    /\ input' = BuildInput(lead, tenant, JsString(m), Phone)
    /\ out' = handleMessage(input')
    /\ lead' = ApplyUpdate(lead, out')
    /\ UNCHANGED <<tenant, pc>>
    /\ UNCHANGED bookingVars
    /\ UNCHANGED slotVars
    /\ UNCHANGED notifVars

SetField(l, name, value) == [l EXCEPT !.fields = (name :> value) @@ l.fields]

\* POST /api/locations answers a "fetch_locations": the locations are listed and
\* the lead is asked for one
LocationsListed ==
    /\ pc = "idle"
    /\ stageOf(lead) = "fetching_locations"
    /\ Field(lead, "Interest", <<>>) # <<>>
    /\ lead' = SetField(lead, "Conversation Stage", "asked_location")
    /\ input' = NoInput
    /\ out' = NoOut
    /\ UNCHANGED <<tenant, pc>>
    /\ UNCHANGED bookingVars
    /\ UNCHANGED slotVars
    /\ UNCHANGED notifVars

\* nextStage of POST /api/sizes
nextStage(interest) == IF interest = <<"L","a","n","d">> THEN "asked_land_size" ELSE "asked_size"

\* POST /api/sizes answers a "fetch_sizes": the lead moves to nextStage
SizesListed ==
    /\ pc = "idle"
    /\ stageOf(lead) = "fetching_sizes"
    /\ Field(lead, "Interest", <<>>) # <<>>
    /\ Field(lead, "Location", <<>>) # <<>>
    /\ lead' = SetField(lead, "Conversation Stage", nextStage(Field(lead, "Interest", <<>>)))
    /\ input' = NoInput
    /\ out' = NoOut
    /\ UNCHANGED <<tenant, pc>>
    /\ UNCHANGED bookingVars
    /\ UNCHANGED slotVars
    /\ UNCHANGED notifVars

\* POST /api/mark-awaiting-followup
MarkAwaitingFollowup(awaiting) ==
    /\ pc = "idle"
    /\ lead.id # <<>>
    /\ lead' = SetField(lead, "AwaitingFollowUpResponse", awaiting)
    /\ input' = NoInput
    /\ out' = NoOut
    /\ UNCHANGED <<tenant, pc>>
    /\ UNCHANGED bookingVars
    /\ UNCHANGED slotVars
    /\ UNCHANGED notifVars

Next ==
    \/ \E m \in ConvMessages : Receive(m)
    \/ LocationsListed
    \/ SizesListed
    \/ \E awaiting \in BOOLEAN : MarkAwaitingFollowup(awaiting)

Spec == Init /\ [][Next]_vars

(***************************************************************************)
(* POST /api/create-booking, one action per stretch between two awaits,    *)
(* and POST /api/cancel-booking                                            *)
(***************************************************************************)
Answer(r, answer) == [reqs EXCEPT ![r].pc = "done", ![r].answer = answer]

\* the required fields of the request body besides the slot number
RequiredFields == {"leadId", "propertyId", "slotMap", "tenantId"}

\* the request arrives: required fields are validated (missing names the absent ones;
\* a slot number 0 is missing too), then a slot map sent as text is parsed
Submit(r, leadId, propertyId, slotNumber, missing, parsable) ==
    /\ reqs[r].pc = "idle"
    /\ reqs' = IF missing # {} \/ slotNumber = 0
               THEN [reqs EXCEPT ![r].pc = "done", ![r].answer = "missing_fields",
                                 ![r].leadId = leadId, ![r].propertyId = propertyId]
               ELSE IF ~parsable
               THEN [reqs EXCEPT ![r].pc = "done", ![r].answer = "invalid_slot_map",
                                 ![r].leadId = leadId, ![r].propertyId = propertyId]
               ELSE [reqs EXCEPT ![r].pc = "check_calendar", ![r].leadId = leadId,
                                 ![r].propertyId = propertyId, ![r].slotNumber = slotNumber]
    /\ UNCHANGED <<events, bookings, leads>>
    /\ UNCHANGED routerVars
    /\ UNCHANGED slotVars
    /\ UNCHANGED notifVars

\* the slot is looked up in the slot map and the calendar is asked for events of the
\* property in the slot
CheckCalendar(r) ==
    /\ reqs[r].pc = "check_calendar"
    /\ reqs' = IF reqs[r].slotNumber \notin 1..Len(SlotMap)
               THEN Answer(r, "invalid_slot")
               ELSE [reqs EXCEPT
                       ![r].pc = "check_bookings",
                       ![r].calendarHasConflict =
                           calendarConflicts(events, reqs[r].propertyId,
                                             SlotMap[reqs[r].slotNumber]) # {}]
    /\ UNCHANGED <<events, bookings, leads>>
    /\ UNCHANGED routerVars
    /\ UNCHANGED slotVars
    /\ UNCHANGED notifVars

\* a conflict check that holds the slot with an event even when it refuses
CheckBookingsReserves(r) ==
    /\ reqs[r].pc = "check_bookings"
    /\ reqs' = Answer(r, "slot_taken")
    /\ events' = events \cup {EventOf(r, reqs[r])}
    /\ UNCHANGED <<bookings, leads>>
    /\ UNCHANGED routerVars
    /\ UNCHANGED slotVars
    /\ UNCHANGED notifVars

\* the Bookings table is asked for a booking in the slot, and the request is refused
\* when either answer shows one
CheckBookings(r) ==
    /\ reqs[r].pc = "check_bookings"
    /\ LET airtableHasConflict ==
               airtableConflicts(bookings, reqs[r].propertyId, SlotMap[reqs[r].slotNumber]) # {}
       IN  reqs' = IF slotTaken(reqs[r].calendarHasConflict, airtableHasConflict)
                   THEN [reqs EXCEPT ![r].pc = "done", ![r].answer = "slot_taken",
                                     ![r].airtableHasConflict = airtableHasConflict,
                                     ![r].seen = {b.id : b \in bookings}]
                   ELSE [reqs EXCEPT ![r].pc = "insert_event",
                                     ![r].airtableHasConflict = airtableHasConflict,
                                     ![r].seen = {b.id : b \in bookings}]
    /\ UNCHANGED <<events, bookings, leads>>
    /\ UNCHANGED routerVars
    /\ UNCHANGED slotVars
    /\ UNCHANGED notifVars

\* calendar.events.insert, which may fail
InsertEvent(r, ok) ==
    /\ reqs[r].pc = "insert_event"
    /\ events' = IF ok THEN events \cup {EventOf(r, reqs[r])} ELSE events
    /\ reqs' = IF ok THEN [reqs EXCEPT ![r].pc = "create_record"]
               ELSE Answer(r, "calendar_failed")
    /\ UNCHANGED <<bookings, leads>>
    /\ UNCHANGED routerVars
    /\ UNCHANGED slotVars
    /\ UNCHANGED notifVars

\* base('Bookings').create, which may fail
CreateRecord(r, ok) ==
    /\ reqs[r].pc = "create_record"
    /\ bookings' = IF ok THEN bookings \cup {BookingOf(r, reqs[r])} ELSE bookings
    /\ reqs' = IF ok THEN Answer(r, "success") ELSE [reqs EXCEPT ![r].pc = "cleanup"]
    /\ UNCHANGED <<events, leads>>
    /\ UNCHANGED routerVars
    /\ UNCHANGED slotVars
    /\ UNCHANGED notifVars

\* the event of a failed booking is deleted; a failure of the deletion is ignored
Cleanup(r, ok) ==
    /\ reqs[r].pc = "cleanup"
    /\ events' = IF ok THEN {e \in events : e.id # r} ELSE events
    /\ reqs' = Answer(r, "booking_failed")
    /\ UNCHANGED <<bookings, leads>>
    /\ UNCHANGED routerVars
    /\ UNCHANGED slotVars
    /\ UNCHANGED notifVars

\* the Scheduled bookings of a lead, and the one cancel-booking takes: the first in
\* descending order of start
scheduledOf(leadId) == {b \in bookings : b.status = "Scheduled" /\ b.lead = leadId}

\* a cancellation that answers success without writing the lead
CancelBookingKeepsLead(leadId, deleted, updated, leadUpdated) ==
    /\ pc = "idle"
    /\ scheduledOf(leadId) # {}
    /\ \E booking \in scheduledOf(leadId) :
          /\ \A b \in scheduledOf(leadId) : b.start <= booking.start
          /\ events' = {e \in events : e.id # booking.eventId}
          /\ bookings' = (bookings \ {booking}) \cup {[booking EXCEPT !.status = "Cancelled"]}
    /\ out' = [success |-> TRUE, noBooking |-> FALSE, status |-> 200]
    /\ UNCHANGED <<lead, tenant, input, pc, reqs, leads, slotReq, notif>>

\* POST /api/cancel-booking: the event is deleted (a failure is ignored), the booking
\* is set to Cancelled, then the lead; an update that fails ends the request
CancelBooking(leadId, deleted, updated, leadUpdated) ==
    /\ pc = "idle"
    /\ IF scheduledOf(leadId) = {}
       THEN /\ out' = [success |-> FALSE, noBooking |-> TRUE, status |-> 200]
            /\ UNCHANGED <<events, bookings, leads>>
       ELSE \E booking \in scheduledOf(leadId) :
              /\ \A b \in scheduledOf(leadId) : b.start <= booking.start
              /\ events' = IF deleted THEN {e \in events : e.id # booking.eventId} ELSE events
              /\ bookings' = IF updated
                             THEN (bookings \ {booking})
                                  \cup {[booking EXCEPT !.status = "Cancelled"]}
                             ELSE bookings
              /\ leads' = IF updated /\ leadUpdated
                          THEN [leads EXCEPT ![leadId] = [stage |-> "booking_cancelled",
                                                          status |-> "Cancelled"]]
                          ELSE leads
              /\ out' = IF updated /\ leadUpdated
                        THEN [success |-> TRUE, noBooking |-> FALSE, status |-> 200]
                        ELSE [success |-> FALSE, noBooking |-> FALSE, status |-> 500]
    /\ UNCHANGED <<lead, tenant, input, pc, reqs, slotReq, notif>>

RequestStep(r) ==
    \/ CheckCalendar(r)
    \/ CheckBookings(r)
    \/ \E ok \in BOOLEAN : InsertEvent(r, ok)
    \/ \E ok \in BOOLEAN : CreateRecord(r, ok)
    \/ \E ok \in BOOLEAN : Cleanup(r, ok)

\* requests arrive at any time and their steps interleave
BookingNext ==
    \/ \E r \in ReqIds, leadId \in LeadIds, propertyId \in Properties,
          slotNumber \in SlotNumbers,
          missing \in {{}} \cup {{f} : f \in RequiredFields}, parsable \in BOOLEAN :
          Submit(r, leadId, propertyId, slotNumber, missing, parsable)
    \/ \E r \in ReqIds : RequestStep(r)
    \/ \E leadId \in LeadIds, deleted \in BOOLEAN, updated \in BOOLEAN, leadUpdated \in BOOLEAN :
          CancelBooking(leadId, deleted, updated, leadUpdated)

SpecBooking == Init /\ [][BookingNext]_vars

\* no create-booking request is being served
NoneInFlight == \A r \in ReqIds : reqs[r].pc \in {"idle", "done"}

\* create-booking requests run one at a time: a request arrives only when the
\* requests before it are answered
BookingOneAtATimeNext ==
    \/ \E r \in ReqIds, leadId \in LeadIds, propertyId \in Properties,
          slotNumber \in SlotNumbers,
          missing \in {{}} \cup {{f} : f \in RequiredFields}, parsable \in BOOLEAN :
          NoneInFlight /\ Submit(r, leadId, propertyId, slotNumber, missing, parsable)
    \/ \E r \in ReqIds : RequestStep(r)
    \/ \E leadId \in LeadIds, deleted \in BOOLEAN, updated \in BOOLEAN, leadUpdated \in BOOLEAN :
          CancelBooking(leadId, deleted, updated, leadUpdated)

SpecBookingOneAtATime == Init /\ [][BookingOneAtATimeNext]_vars

(***************************************************************************)
(* POST /api/available-slots-v2.  An instant (a Date) is a number of       *)
(* minutes of universal time, counted from the start of a Sunday.  The     *)
(* local getters and setters of Date (setHours, getDay, getHours,          *)
(* getMinutes) work in the time zone of the server process, which the      *)
(* program does not set: off is its offset from universal time in hours.   *)
(***************************************************************************)
MAX_SLOTS == 7

KENYA_OFFSET_HOURS == 3

\* the instant of hour:minute universal time on the given day
At(dayNumber, hour, minute) == dayNumber * 1440 + hour * 60 + minute

\* day = new Date(now); day.setDate(day.getDate() + dayOffset); day.setHours(0,0,0,0)
dayStart(now, dayOffset, off) == ((now + off * 60) \div 1440 + dayOffset) * 1440 - off * 60

\* d.getDay(): 0 is Sunday
getDay(d, off) == ((d + off * 60) \div 1440) % 7

\* d.setUTCHours(hour, 0, 0, 0): the universal date of d is kept
setUTCHours(d, hour) == (d \div 1440) * 1440 + hour * 60

\* d.getHours() and d.getMinutes()
getHours(d, off) == ((d + off * 60) % 1440) \div 60

getMinutes(d, off) == (d + off * 60) % 60

\* booked.some(b => start < b.end && end > b.start)
overlaps(booked, start, end) == \E b \in booked : start < b.end /\ end > b.start

\* workingDaysStr.includes(dayNames[d.getDay()])
isWorkingDay(workingDays, d, off) == getDay(d, off) \in workingDays

\* an hour counter that is not advanced
hourStays(hour) == hour

\* hour++
hourPlusPlus(hour) == hour + 1

\* Math.floor((hour * 60 + slotDuration) / 60)
nextHour(hour, slotDuration) == (hour * 60 + slotDuration) \div 60

\* the request as it starts: tenant configuration read, events listed, loops not yet
\* entered
SlotRequest(off, now, workStart, workEnd, slotDuration, workingDays, daysAhead, booked) ==
    [pc |-> "day", off |-> off, now |-> now, workStart |-> workStart, workEnd |-> workEnd,
     slotDuration |-> slotDuration, workingDays |-> workingDays, daysAhead |-> daysAhead,
     booked |-> booked, dayOffset |-> 0, hour |-> 0, freeSlots |-> <<>>,
     slotMap |-> <<>>, count |-> 0]

\* the head of the day loop: the loop ends, a day is skipped, or its hours are entered
DayStep ==
    /\ slotReq.pc = "day"
    /\ LET day == dayStart(slotReq.now, slotReq.dayOffset, slotReq.off)
       IN  slotReq' =
             IF ~(slotReq.dayOffset < slotReq.daysAhead /\ Len(slotReq.freeSlots) < MAX_SLOTS)
             THEN [slotReq EXCEPT !.pc = "respond"]
             ELSE IF ~isWorkingDay(slotReq.workingDays, day, slotReq.off)
             THEN [slotReq EXCEPT !.dayOffset = @ + 1]
             ELSE [slotReq EXCEPT !.pc = "hour", !.hour = slotReq.workStart]
    /\ UNCHANGED routerVars
    /\ UNCHANGED bookingVars
    /\ UNCHANGED notifVars

\* one pass of the hour loop
HourStep ==
    /\ slotReq.pc = "hour"
    /\ LET day == dayStart(slotReq.now, slotReq.dayOffset, slotReq.off)
           minSlotTime == slotReq.now + 60
           slotStart == setUTCHours(day, slotReq.hour - KENYA_OFFSET_HOURS)
           slotEnd == slotStart + slotReq.slotDuration
           endHour == getHours(slotEnd, slotReq.off)
           endMinute == getMinutes(slotEnd, slotReq.off)
       IN  slotReq' =
             IF ~(slotReq.hour < slotReq.workEnd /\ Len(slotReq.freeSlots) < MAX_SLOTS)
             THEN [slotReq EXCEPT !.pc = "day", !.dayOffset = @ + 1]
             ELSE IF slotStart <= minSlotTime
             THEN [slotReq EXCEPT !.hour = hourPlusPlus(@)]
             ELSE IF endHour > slotReq.workEnd \/ (endHour = slotReq.workEnd /\ endMinute > 0)
             THEN [slotReq EXCEPT !.pc = "day", !.dayOffset = @ + 1]
             ELSE IF overlaps(slotReq.booked, slotStart, slotEnd)
             THEN [slotReq EXCEPT !.hour = hourPlusPlus(@)]
             ELSE [slotReq EXCEPT
                     !.freeSlots = Append(@, [number |-> Len(@) + 1,
                                              start |-> slotStart, end |-> slotEnd]),
                     !.hour = nextHour(@, slotReq.slotDuration)]
    /\ UNCHANGED routerVars
    /\ UNCHANGED bookingVars
    /\ UNCHANGED notifVars

\* two digits of a number below 100
pad2(n) == <<DigitChars[(n \div 10) + 1], DigitChars[(n % 10) + 1]>>

\* d.toISOString(): date, "T", hours and minutes of universal time, seconds, "Z";
\* the date is written as the number of the day
toISOString(d) ==
    natToString(d \div 1440) \o <<"T">> \o pad2((d % 1440) \div 60) \o <<":">> \o pad2(d % 60)
        \o <<":","0","0",".","0","0","0","Z">>

\* new Date(text) of such a text
parseDate(text) ==
    LET date == DigitsFrom(text, 1)
        time == From(text, Len(date) + 2)
    IN  At(digitsValue(date), digitsValue(SubSeq(time, 1, 2)), digitsValue(SubSeq(time, 4, 5)))

\* a slot map that numbers the slots from 0
RECURSIVE slotMapOfFromZero(_)
slotMapOfFromZero(freeSlots) ==
    IF Len(freeSlots) = 0 THEN <<>>
    ELSE LET slot == freeSlots[Len(freeSlots)]
         IN  (natToString(slot.number - 1) :>
                 (toISOString(slot.start) \o <<"|">> \o toISOString(slot.end)))
             @@ slotMapOfFromZero(SubSeq(freeSlots, 1, Len(freeSlots) - 1))

\* slotMap[slot.number] = `${slot.start}|${slot.end}` for each slot in turn: the key
\* is the number as text, the start and end are the ISO texts made when the slot was
\* pushed, and a later slot of the same number replaces the earlier one
RECURSIVE slotMapOf(_)
slotMapOf(freeSlots) ==
    IF Len(freeSlots) = 0 THEN <<>>
    ELSE LET slot == freeSlots[Len(freeSlots)]
         IN  (natToString(slot.number) :>
                 (toISOString(slot.start) \o <<"|">> \o toISOString(slot.end)))
             @@ slotMapOf(SubSeq(freeSlots, 1, Len(freeSlots) - 1))

\* the slot map is built and the answer is sent
Respond ==
    /\ slotReq.pc = "respond"
    /\ slotReq' = [slotReq EXCEPT !.pc = "answered",
                                  !.slotMap = slotMapOf(slotReq.freeSlots),
                                  !.count = Len(slotReq.freeSlots)]
    /\ UNCHANGED routerVars
    /\ UNCHANGED bookingVars
    /\ UNCHANGED notifVars

\* create-booking's slots[slotNumber], its test and its split at "|": the interval
\* that is booked for a slot number, or none when the request is refused
slotDataOf(slots, slotNumber) ==
    IF natToString(slotNumber) \notin DOMAIN slots THEN {}
    ELSE LET slotData == slots[natToString(slotNumber)]
             parts == split(slotData, "|")
         IN  IF ~includes(slotData, <<"|">>) THEN {}
             ELSE {[start |-> parseDate(parts[1]), end |-> parseDate(parts[2])]}

\* the offsets of the server's time zone: universal time, or the tenants' (Nairobi)
ServerOffsets == {0, 3}

WorkStarts == {9}

WorkEnds == {11, 12}

SlotDurations == {30, 60, 90, 120}

DaysAheadValues == {1, 3}

\* Monday to Friday (the default), or every day
WorkingDaySets == {{1, 2, 3, 4, 5}, 0..6}

\* request times: Sunday 06:00, Monday 07:30, Monday 09:00, Friday 10:30 and
\* Tuesday 01:30 in Nairobi (the last is still Monday in universal time)
Nows == {At(7, 3, 0), At(8, 4, 30), At(8, 6, 0), At(12, 7, 30), At(8, 22, 30)}

\* calendar events of the property: Monday 10:00-11:00 and Tuesday 09:30-10:30 in
\* Nairobi
BookedEvents ==
    {[start |-> At(8, 7, 0), end |-> At(8, 8, 0)], [start |-> At(9, 6, 30), end |-> At(9, 7, 30)]}

SlotsInit ==
    /\ lead = NoLead
    /\ tenant = Tenant(JsString(<<"L","a","n","d",","," ","R","e","n","t">>))
    /\ input = NoInput
    /\ out = NoOut
    /\ pc = "idle"
    /\ events = {}
    /\ bookings = {}
    /\ leads = [l \in LeadIds |-> [stage |-> "awaiting_time_slot", status |-> "Contacted"]]
    /\ reqs = [r \in ReqIds |-> NoRequest(r)]
    /\ notif = NoNotifications
    /\ \E off \in ServerOffsets, now \in Nows, workStart \in WorkStarts, workEnd \in WorkEnds,
          slotDuration \in SlotDurations, workingDays \in WorkingDaySets,
          daysAhead \in DaysAheadValues, booked \in SUBSET BookedEvents :
          slotReq = SlotRequest(off, now, workStart, workEnd, slotDuration, workingDays,
                                daysAhead, booked)

SlotsNext == DayStep \/ HourStep \/ Respond

SpecSlots == SlotsInit /\ [][SlotsNext]_vars

\* the handler runs on: no step of it waits for anything but its own awaits
SpecSlotsFair == SpecSlots /\ WF_vars(SlotsNext)

(***************************************************************************)
(* Claims                                                                  *)
(***************************************************************************)
Done == pc = "done"

\* the message as the router compares it: lower-cased and trimmed
Normalized(in) ==
    IF IsString(in.message) /\ Truthy(in.message) THEN trim(toLowerCase(in.message.v)) ELSE <<>>

HasLeadId(in) == in.lead_id.t = "string" /\ in.lead_id.v # <<>>

ActionTags ==
    {"create", "update", "invalid", "fetch_locations", "fetch_sizes", "booking",
     "create_booking", "cancel_booking", "followup_interested", "followup_not_interested",
     "error"}

\* C1: handleMessage never throws: every call, also one on a null input, on an input
\* without a message or with a message or tenant types that are no string, returns a
\* descriptor, and a call whose body raises a fault returns action "error" with a
\* non-empty reply.
C1_NeverThrows ==
    Done =>
        /\ {"action", "replyMessage"} \subseteq DOMAIN out
        /\ out.action \in ActionTags
        /\ (input.t = "null" \/ "thrown" \in DOMAIN tryBody(input)) =>
              (out.action = "error" /\ out.replyMessage.tpl # "")
        /\ (input.t # "null" /\ Truthy(input.message) /\ ~IsString(input.message)) =>
              out.action = "error"

C1_Witness ==
    /\ Done
    /\ input.t = "object"
    /\ input.message = JsNumber(5)
    /\ out.action = "error"

\* C3: a descriptor with action "invalid" has an empty updateFields map, and the
\* persisted lead is the lead as it was before the call.
C3_InvalidWritesNothing ==
    (Done /\ out.action = "invalid") =>
        /\ out.updateFields = NoFields
        /\ stageOf(lead) = input.lead_stage
        /\ lead = ApplyUpdate(lead, [out EXCEPT !.updateFields = NoFields])

C3_Witness ==
    /\ Done
    /\ input.t = "object"
    /\ out.action = "invalid"
    /\ input.lead_stage = "asked_budget"
    /\ input.message = JsString(<<"a","b","c">>)
    /\ stageOf(lead) = "asked_budget"

\* C4: for an existing lead at any stage, a greeting (lower-cased and trimmed) gives
\* action "update" and writes the single field Conversation Stage = asked_buy_or_rent.
C4_GreetingRestarts ==
    (Done /\ WellFormed(input) /\ HasLeadId(input) /\ Normalized(input) \in GreetingWords) =>
        /\ out.action = "update"
        /\ DOMAIN out.updateFields = {"Conversation Stage"}
        /\ out.updateFields["Conversation Stage"] = "asked_buy_or_rent"
        /\ lead.fields = ("Conversation Stage" :> "asked_buy_or_rent")
                         @@ LeadAt(input.lead_stage, input.awaiting_followup_response,
                                   input.lead_name # <<>>).fields

C4_Witness ==
    /\ Done
    /\ input.t = "object"
    /\ input.message = JsString(<<" ","H","i"," ">>)
    /\ input.lead_stage = "booking_confirmed"
    /\ input.lead_name = <<"M","a","r","y"," ","J","a","n","e">>
    /\ out.action = "update"
    /\ stageOf(lead) = "asked_buy_or_rent"
    /\ Field(lead, "Name", <<>>) = <<"M","a","r","y"," ","J","a","n","e">>

\* C5: an existing lead that awaits the follow-up answer and sends "1" is, at every
\* stage, marked Hot Lead at stage interested_after_viewing with the flag cleared,
\* and the descriptor carries an agent notification.
C5_FollowUpInterested ==
    (Done /\ input.t = "object" /\ HasLeadId(input) /\ input.awaiting_followup_response
          /\ Normalized(input) = <<"1">>) =>
        /\ out.action = "followup_interested"
        /\ out.updateFields = ("Status" :> "Hot Lead")
                              @@ ("Conversation Stage" :> "interested_after_viewing")
                              @@ ("AwaitingFollowUpResponse" :> FALSE)
        /\ "agentNotification" \in DOMAIN out
        /\ out.agentNotification.message.tpl # ""
        /\ out.agentNotification.leadPhone = input.from
        /\ stageOf(lead) = "interested_after_viewing"
        /\ Field(lead, "AwaitingFollowUpResponse", TRUE) = FALSE

C5_Witness ==
    /\ Done
    /\ input.t = "object"
    /\ input.lead_stage = "asked_buy_or_rent"
    /\ input.awaiting_followup_response
    /\ input.message = JsString(<<"1">>)
    /\ out.action = "followup_interested"
    /\ Field(lead, "Status", "") = "Hot Lead"

\* C6: with the flag set, "2" marks the lead Not Interested at stage
\* not_interested_after_viewing, clears the flag and replies without notifying the agent.
C6_FollowUpNotInterested ==
    (Done /\ input.t = "object" /\ HasLeadId(input) /\ input.awaiting_followup_response
          /\ Normalized(input) = <<"2">>) =>
        /\ out.action = "followup_not_interested"
        /\ out.updateFields = ("Status" :> "Not Interested")
                              @@ ("Conversation Stage" :> "not_interested_after_viewing")
                              @@ ("AwaitingFollowUpResponse" :> FALSE)
        /\ out.replyMessage.tpl # ""
        /\ "agentNotification" \notin DOMAIN out

C6_Witness ==
    /\ Done
    /\ input.t = "object"
    /\ input.lead_stage = "awaiting_time_slot"
    /\ input.awaiting_followup_response
    /\ input.message = JsString(<<"2","\n">>)
    /\ out.action = "followup_not_interested"
    /\ stageOf(lead) = "not_interested_after_viewing"

\* C7: for an existing lead and a message that is, lower-cased and trimmed, neither
\* "1" nor "2", the descriptor is the one the same input gives with the awaiting flag
\* inverted, and it does not write the flag.
C7_FlagOnlyMattersForAnswers ==
    (Done /\ input.t = "object" /\ HasLeadId(input) /\ Normalized(input) \notin {<<"1">>, <<"2">>}) =>
        /\ out = handleMessage([input EXCEPT !.awaiting_followup_response = ~@])
        /\ "updateFields" \in DOMAIN out =>
              "AwaitingFollowUpResponse" \notin DOMAIN out.updateFields

C7_Witness ==
    /\ Done
    /\ input.t = "object"
    /\ HasLeadId(input)
    /\ input.awaiting_followup_response
    /\ input.lead_stage = "completed"
    /\ input.message = JsString(<<"3">>)
    /\ out.action = "booking"

ConfiguredTypesText(in) ==
    IF Truthy(in.tenant_property_types) THEN in.tenant_property_types.v ELSE <<"B","u","y",","," ","R","e","n","t">>

ConfiguredTypes(in) == typesListOf(ConfiguredTypesText(in))

\* the first message of a new lead as the detection reads it
FirstMessage(in) == IF Truthy(in.message) THEN toLowerCase(in.message.v) ELSE <<>>

\* type T is named in the message, or the message holds a synonym of its group
NamedIn(T, msg) == T # <<>> /\ includes(msg, toLowerCase(T))
SynonymIn(T, msg) ==
    \/ includes(toLowerCase(T), <<"b","u","y">>) /\ includesAny(msg, BuyWords)
    \/ includes(toLowerCase(T), <<"r","e","n","t">>) /\ includesAny(msg, RentWords)
    \/ includes(toLowerCase(T), <<"l","a","n","d">>) /\ includesAny(msg, LandWords)

FirstOf(types, hits) == IF hits = {} THEN <<>> ELSE types[Min(hits)]

\* C9 as claimed: a new lead whose first message names a configured type or holds a
\* synonym of one is created with Interest = the first matching type in
\* configuration order, at stage asked_name.
C9_FirstMatchInConfigurationOrder ==
    (Done /\ WellFormed(input) /\ ~HasLeadId(input)) =>
        LET types == ConfiguredTypes(input)
            msg == FirstMessage(input)
            matching == {i \in 1..Len(types) : NamedIn(types[i], msg) \/ SynonymIn(types[i], msg)}
        IN  matching # {} =>
               /\ out.updateFields["Conversation Stage"] = "asked_name"
               /\ "Interest" \in DOMAIN out.updateFields
               /\ out.updateFields["Interest"] = types[Min(matching)]

\* the type the amended claim names: a type named in the message before any synonym,
\* the first such in configuration order; else the groups buy, rent, land in that
\* order, each giving the first configured type whose name holds the group word
ExpectedInterest(types, msg) ==
    LET named == FirstOf(types, {i \in 1..Len(types) : NamedIn(types[i], msg)})
        group(word) == FirstOf(types, {i \in 1..Len(types) : includes(toLowerCase(types[i]), word)})
        buy == IF includesAny(msg, BuyWords) THEN group(<<"b","u","y">>) ELSE <<>>
        rent == IF includesAny(msg, RentWords) THEN group(<<"r","e","n","t">>) ELSE <<>>
        land == IF includesAny(msg, LandWords) THEN group(<<"l","a","n","d">>) ELSE <<>>
    IN  IF named # <<>> THEN named
        ELSE IF buy # <<>> THEN buy
        ELSE IF rent # <<>> THEN rent
        ELSE land

\* C9 (amended): a new lead whose first message names a configured type or holds a
\* synonym of one is created at stage asked_name with Interest = a configured type:
\* a type named in the message wins over a synonym, the first named type in
\* configuration order wins among the named ones, and the synonym groups are tried in
\* the order buy, rent, land; without any match the lead is created at
\* asked_buy_or_rent without Interest.
C9_DetectedInterest ==
    (Done /\ WellFormed(input) /\ ~HasLeadId(input)) =>
        LET expected == ExpectedInterest(ConfiguredTypes(input), FirstMessage(input))
        IN  IF expected # <<>>
            THEN /\ out.updateFields["Conversation Stage"] = "asked_name"
                 /\ "Interest" \in DOMAIN out.updateFields
                 /\ out.updateFields["Interest"] = expected
                 /\ \E i \in 1..Len(ConfiguredTypes(input)) : ConfiguredTypes(input)[i] = expected
            ELSE /\ out.updateFields["Conversation Stage"] = "asked_buy_or_rent"
                 /\ "Interest" \notin DOMAIN out.updateFields

\* "lease or buy" with the types "Rent,Buy": Buy is named, Rent only by a synonym
C9_Witness ==
    /\ Done
    /\ input.t = "object"
    /\ ~HasLeadId(input)
    /\ input.message = JsString(<<"l","e","a","s","e"," ","o","r"," ","b","u","y">>)
    /\ input.tenant_property_types = JsString(<<"R","e","n","t",",","B","u","y">>)
    /\ out.action = "create"
    /\ Field(lead, "Interest", <<>>) = <<"B","u","y">>
    /\ stageOf(lead) = "asked_name"

\* C10 as claimed (for a lead whose message the follow-up handler does not take): at
\* stage asked_buy_or_rent the 1-based number or the name of a configured type sets
\* Interest to that type and moves to asked_name, and every other message that is no
\* greeting gives "invalid" with the options list.
C10_TypeChoiceOrReprompt ==
    (Done /\ WellFormed(input) /\ HasLeadId(input) /\ input.lead_stage = "asked_buy_or_rent"
          /\ IsString(input.message)
          /\ Normalized(input) \notin GreetingWords
          /\ ~(input.awaiting_followup_response /\ Normalized(input) \in {<<"1">>, <<"2">>})) =>
        LET types == ConfiguredTypes(input)
            chosen == {i \in 1..Len(types) : natToString(i) = Normalized(input)
                                              \/ toLowerCase(types[i]) = Normalized(input)}
        IN  IF chosen # {}
            THEN /\ out.action = "update"
                 /\ DOMAIN out.updateFields = {"Interest", "Conversation Stage"}
                 /\ out.updateFields["Interest"] \in {types[i] : i \in chosen}
                 /\ out.updateFields["Conversation Stage"] = "asked_name"
            ELSE /\ out.action = "invalid"
                 /\ out.updateFields = NoFields
                 /\ out.replyMessage.args = <<formatOptions(ConfiguredTypesText(input))>>

\* the position of a stage in the conversation sequence; a lead not yet created is
\* before the first stage
Rank ==
    ("" :> 0) @@ ("asked_buy_or_rent" :> 1) @@ ("asked_name" :> 2) @@ ("asked_budget" :> 3)
    @@ ("fetching_locations" :> 4) @@ ("asked_location" :> 5) @@ ("fetching_sizes" :> 6)
    @@ ("asked_size" :> 7) @@ ("asked_land_size" :> 7) @@ ("completed" :> 8)
    @@ ("awaiting_time_slot" :> 9) @@ ("booking_confirmed" :> 10)

Forward(s, t) == s \in DOMAIN Rank /\ t \in DOMAIN Rank /\ Rank[s] < Rank[t]

\* the greeting restart, as the router answers it
GreetingRestart ==
    /\ Normalized(input') \in GreetingWords
    /\ out'.action = "update"
    /\ stageOf(lead') = "asked_buy_or_rent"

\* the cancel path
CancelPath ==
    /\ out'.action = "cancel_booking"
    /\ stageOf(lead) = "booking_confirmed"
    /\ stageOf(lead') = "booking_cancelled"

\* the answer to the follow-up question after a viewing
FollowUpAnswer ==
    \/ out'.action = "followup_interested" /\ stageOf(lead') = "interested_after_viewing"
    \/ out'.action = "followup_not_interested" /\ stageOf(lead') = "not_interested_after_viewing"

\* C2 as claimed: every step either leaves the stage alone, moves it forward along
\* the sequence, is the greeting restart or is the cancel path.
C2_ForwardRestartCancelOnly ==
    [][\/ stageOf(lead') = stageOf(lead)
       \/ Forward(stageOf(lead), stageOf(lead'))
       \/ GreetingRestart
       \/ CancelPath]_vars

\* C2 (amended): every step either leaves the stage alone, moves it forward along the
\* sequence, is the greeting restart, is the cancel path, or is the answer "1" or "2"
\* of a lead awaiting its follow-up answer, which moves the lead from any stage to
\* interested_after_viewing or not_interested_after_viewing.
C2_ForwardRestartCancelFollowUpOnly ==
    [][\/ stageOf(lead') = stageOf(lead)
       \/ Forward(stageOf(lead), stageOf(lead'))
       \/ GreetingRestart
       \/ CancelPath
       \/ /\ FollowUpAnswer
          /\ input'.awaiting_followup_response
          /\ Normalized(input') \in {<<"1">>, <<"2">>}]_vars

\* a lead in the middle of the sequence has answered the follow-up question
C2_Witness ==
    /\ out # NoOut
    /\ out.action = "followup_interested"
    /\ input.lead_stage = "asked_location"
    /\ stageOf(lead) = "interested_after_viewing"

\* the message reaches the handler of the stage: the lead is known, the message is
\* no greeting and no answer to a pending follow-up question
ReachesStage(stage) ==
    /\ Done
    /\ WellFormed(input)
    /\ HasLeadId(input)
    /\ input.lead_stage = stage
    /\ Normalized(input) \notin GreetingWords
    /\ ~(input.awaiting_followup_response /\ Normalized(input) \in {<<"1">>, <<"2">>})

\* a text capitalised word by word: first letter upper, rest lower
CapitalisedWords(text) ==
    LET words == splitSpaces(trim(text))
    IN  join([i \in 1..Len(words) |-> capitalize(words[i])])

NamePhrases == <<<<"m","y"," ","n","a","m","e"," ","i","s"," ">>, <<"i"," ","a","m"," ">>, <<"i","'","m"," ">>, <<"t","h","i","s"," ","i","s"," ">>>>

\* the X of the first phrase "my name is X", "i am X", "i'm X", "this is X" the
\* message holds, or the message itself when it is made of letter words only
NameGiven(msg) ==
    LET held == {k \in 1..Len(NamePhrases) : MatchesPhrase(msg, NamePhrases[k])}
    IN  IF held # {} THEN PhraseCapture(msg, NamePhrases[Min(held)])
        ELSE IF IsPlainName(msg) THEN msg
        ELSE <<>>

\* C13 as claimed: at stage asked_name a message of one of the four phrase forms or
\* made of letter words only (the name of two characters or more) is accepted with
\* Name = the extracted text capitalised word by word and stage asked_budget; any
\* other message is answered invalid.
C13_NameCapitalisedOrRejected ==
    ReachesStage("asked_name") =>
        LET given == NameGiven(Normalized(input))
        IN  IF Len(given) >= 2
            THEN /\ out.action = "update"
                 /\ DOMAIN out.updateFields = {"Name", "Conversation Stage"}
                 /\ out.updateFields["Name"] = CapitalisedWords(given)
                 /\ out.updateFields["Conversation Stage"] = "asked_budget"
            ELSE out.action = "invalid" /\ out.updateFields = NoFields

\* a decimal numeral: digits with at most one dot, at least one digit
IsAmountText(t) ==
    /\ \E i \in 1..Len(t) : IsDigit(t[i])
    /\ \A i \in 1..Len(t) : IsDigit(t[i]) \/ t[i] = "."
    /\ Cardinality({i \in 1..Len(t) : t[i] = "."}) <= 1

BudgetExamples ==
    {<<<<"5","m">>, <<"5","0","0","0","0","0","0">>>>, <<<<"5","0","0","k">>, <<"5","0","0","0","0","0">>>>, <<<<"1",",","2","0","0",",","0","0","0">>, <<"1","2","0","0","0","0","0">>>>}

\* C14 as claimed: at stage asked_budget the message stripped to digits, dots, commas,
\* M and K is, when of the shape digits/dots/commas with an optional M or K, parsed to
\* an absolute amount stored as Budget with action fetch_locations and stage
\* fetching_locations ("5M" gives 5000000, "500K" 500000, "1,200,000" 1200000); a
\* string of another shape is answered invalid.
C14_BudgetAmountOrRejected ==
    ReachesStage("asked_budget") =>
        LET budgetStr == cleanBudget(extractBudget(Normalized(input)))
        IN  IF IsBudgetShape(budgetStr)
            THEN /\ out.action = "fetch_locations"
                 /\ DOMAIN out.updateFields = {"Budget", "Conversation Stage"}
                 /\ out.updateFields["Conversation Stage"] = "fetching_locations"
                 /\ IsAmountText(out.updateFields["Budget"])
                 /\ \A e \in BudgetExamples :
                        Normalized(input) = e[1] => out.updateFields["Budget"] = e[2]
            ELSE out.action = "invalid" /\ out.updateFields = NoFields

\* the text after a leading "in " or "at ", or the whole message
LocationGiven(msg) ==
    IF StartsAt(msg, <<"i","n"," ">>, 1) /\ Len(msg) > 3 THEN From(msg, 4)
    ELSE IF StartsAt(msg, <<"a","t"," ">>, 1) /\ Len(msg) > 3 THEN From(msg, 4)
    ELSE msg

\* C15 as claimed: at stage asked_location the message, without its "in "/"at " prefix
\* when it has one, is accepted when it holds two letters: Location is that text
\* capitalised word by word, the action is fetch_sizes and the stage fetching_sizes;
\* a message without two letters is answered invalid.
C15_LocationCapitalisedOrRejected ==
    ReachesStage("asked_location") =>
        LET given == LocationGiven(Normalized(input))
        IN  IF HasTwoLetters(given)
            THEN /\ out.action = "fetch_sizes"
                 /\ DOMAIN out.updateFields = {"Location", "Conversation Stage"}
                 /\ out.updateFields["Location"] = CapitalisedWords(given)
                 /\ out.updateFields["Conversation Stage"] = "fetching_sizes"
            ELSE out.action = "invalid" /\ out.updateFields = NoFields

\* the digits of a bedroom count given as "N bed", as "i want/need N" or bare
BedroomsGiven(msg) ==
    IF DigitsThenAt(msg, <<"b","e","d">>) # {} THEN DigitsFrom(msg, Min(DigitsThenAt(msg, <<"b","e","d">>)))
    ELSE IF WantNeedAt(msg, Range(DigitChars)) # {}
    THEN DigitsFrom(msg, Min(WantNeedAt(msg, Range(DigitChars))) + 7)
    ELSE IF AllDigits(msg) THEN msg
    ELSE <<>>

\* C16 as claimed: at stage asked_size the router advances to completed only with a
\* bedroom count N in 1..20 given bare, as "N bed" or as "I want/need N": Size is
\* "N bedroom", Status Contacted, bedrooms N, searchProperties true; a count outside
\* 1..20 or a message without a count is answered invalid.
C16_BedroomsInRangeOrRejected ==
    ReachesStage("asked_size") =>
        LET given == BedroomsGiven(Normalized(input))
            N == digitsValue(given)
        IN  IF given # <<>> /\ N \in 1..20
            THEN /\ out.action = "update"
                 /\ out.updateFields = ("Size" :> (natToString(N) \o <<" ","b","e","d","r","o","o","m">>))
                                       @@ ("Conversation Stage" :> "completed")
                                       @@ ("Status" :> "Contacted")
                 /\ out.bedrooms = N
                 /\ out.searchProperties
            ELSE out.action = "invalid" /\ out.updateFields = NoFields

\* the message as typed ("" when there is none)
Typed(in) == IF Truthy(in.message) THEN in.message.v ELSE <<>>

\* what a completed land-size answer carries
LandSizeStored(text) ==
    /\ out.action = "update"
    /\ out.updateFields = ("Size" :> text) @@ ("Conversation Stage" :> "completed")
                          @@ ("Status" :> "Contacted")
    /\ out.plotSize = text
    /\ out.searchProperties

PlotSizeGiven(original, msg) ==
    LET phrase == {i \in 1..Len(msg) : /\ StartsAt(msg, <<"i"," ","w","a","n","t"," ">>, i) \/ StartsAt(msg, <<"i"," ","n","e","e","d"," ">>, i)
                                       /\ i + 7 <= Len(msg) /\ IsDot(msg[i + 7])}
        b == Min(phrase) + 7
        stop == {j \in b..Len(msg) : ~IsDot(msg[j])}
    IN  IF IsPlotShape(msg) \/ phrase = {} THEN trim(original)
        ELSE SubSeq(msg, b, IF stop = {} THEN Len(msg) ELSE Min(stop) - 1)

SelectorGiven(msg, word) ==
    IF MatchesNumberAfter(msg, word) THEN NumberAfterCapture(msg, word)
    ELSE IF AllDigits(msg) THEN msg
    ELSE IF MatchesNumberAfter(msg, <<"n","u","m","b","e","r">>) THEN NumberAfterCapture(msg, <<"n","u","m","b","e","r">>)
    ELSE <<>>

PropertySelected(N) ==
    /\ out.action = "booking"
    /\ out.updateFields = ("Conversation Stage" :> "awaiting_time_slot")
                          @@ ("Selected Property Number" :> N)
    /\ out.propertyNumber = N

\* C18 as claimed: at stage completed every selector "propertyN", "number N" or bare
\* N, for any number N, gives action booking, stage awaiting_time_slot and N as
\* Selected Property Number and propertyNumber; any other message is answered invalid
\* and leaves the stage alone.
C18_AnyPropertyNumber ==
    ReachesStage("completed") =>
        LET given == SelectorGiven(Normalized(input), <<"p","r","o","p","e","r","t","y">>)
        IN  IF given # <<>> THEN PropertySelected(digitsValue(given))
            ELSE out.action = "invalid" /\ out.updateFields = NoFields

\* C18 (amended): at stage completed every selector "propertyN", "number N" or bare N
\* with N of 1 or more gives action booking, stage awaiting_time_slot and N as
\* Selected Property Number and propertyNumber; the number 0 and any other message
\* are answered invalid and leave the stage at completed.
C18_PositivePropertyNumber ==
    ReachesStage("completed") =>
        LET given == SelectorGiven(Normalized(input), <<"p","r","o","p","e","r","t","y">>)
        IN  IF given # <<>> /\ digitsValue(given) >= 1 THEN PropertySelected(digitsValue(given))
            ELSE /\ out.action = "invalid"
                 /\ out.updateFields = NoFields
                 /\ stageOf(lead) = "completed"

\* property 0 is no selection
C18_Witness ==
    /\ Done
    /\ input.t = "object"
    /\ HasLeadId(input)
    /\ input.lead_stage = "completed"
    /\ input.message = JsString(<<"p","r","o","p","e","r","t","y"," ","0">>)
    /\ out.action = "invalid"
    /\ stageOf(lead) = "completed"

SlotSelected(N) ==
    /\ out.action = "create_booking"
    /\ out.bookingRequest
    /\ out.updateFields = ("Conversation Stage" :> "booking_confirmed")
                          @@ ("Selected Time Slot" :> N)
    /\ out.selectedTime = JsNumber(N)

\* C19 as claimed: at stage awaiting_time_slot every selector bare N, "slot N" or
\* "number N", for any number N, gives action create_booking with bookingRequest
\* true, stage booking_confirmed and N as Selected Time Slot and selectedTime; any
\* other message is answered invalid.
C19_AnySlotNumber ==
    ReachesStage("awaiting_time_slot") =>
        LET given == SelectorGiven(Normalized(input), <<"s","l","o","t">>)
        IN  IF given # <<>> THEN SlotSelected(digitsValue(given))
            ELSE out.action = "invalid" /\ out.updateFields = NoFields

\* C19 (amended): at stage awaiting_time_slot every selector bare N, "slot N" or
\* "number N" with N of 1 or more gives action create_booking with bookingRequest
\* true, stage booking_confirmed and N as Selected Time Slot and selectedTime; the
\* number 0 and any other message are answered invalid.
C19_PositiveSlotNumber ==
    ReachesStage("awaiting_time_slot") =>
        LET given == SelectorGiven(Normalized(input), <<"s","l","o","t">>)
        IN  IF given # <<>> /\ digitsValue(given) >= 1 THEN SlotSelected(digitsValue(given))
            ELSE out.action = "invalid" /\ out.updateFields = NoFields

\* slot 0 is no selection
C19_Witness ==
    /\ Done
    /\ input.t = "object"
    /\ HasLeadId(input)
    /\ input.lead_stage = "awaiting_time_slot"
    /\ input.message = JsString(<<"s","l","o","t"," ","0">>)
    /\ out.action = "invalid"
    /\ stageOf(lead) = "awaiting_time_slot"

SharesTime(x, y) == \E t \in x.start..(x.end - 1) : t \in y.start..(y.end - 1)

\* two bookings of one property that are not cancelled and share time
DoubleBooked(b1, b2) ==
    /\ b1 # b2
    /\ b1.status = "Scheduled" /\ b2.status = "Scheduled"
    /\ b1.property = b2.property
    /\ SharesTime(b1, b2)

\* C11: the conflict check and the creation are separate steps with nothing held in
\* between: a request that passed its checks creates its event and its booking
\* whatever was stored since, so two requests for one property and slot whose checks
\* both ran before either booking was stored both succeed; a double-booked slot
\* arises in this way only (neither request saw the booking of the other).
C11_DoubleBookingByInterleavedChecks ==
    /\ \A r \in ReqIds :
          reqs[r].answer = "success" =>
             /\ ~reqs[r].calendarHasConflict /\ ~reqs[r].airtableHasConflict
             /\ \E b \in bookings : b.id = r /\ b.eventId = r
    /\ \A b1 \in bookings, b2 \in bookings :
          DoubleBooked(b1, b2) => b2.id \notin reqs[b1.id].seen /\ b1.id \notin reqs[b2.id].seen

\* two requests for the same property and slot are both answered with success; both
\* events are in the calendar and both bookings are Scheduled
C11_Witness ==
    \E r1 \in ReqIds, r2 \in ReqIds :
        /\ r1 # r2
        /\ reqs[r1].answer = "success" /\ reqs[r2].answer = "success"
        /\ reqs[r1].propertyId = reqs[r2].propertyId
        /\ reqs[r1].slotNumber = reqs[r2].slotNumber
        /\ {EventOf(r1, reqs[r1]), EventOf(r2, reqs[r2])} \subseteq events
        /\ {BookingOf(r1, reqs[r1]), BookingOf(r2, reqs[r2])} \subseteq bookings

\* C12: with create-booking requests served one at a time, a request goes past the
\* conflict check only when no calendar event of the property and no booking of the
\* property that is not cancelled shares time with its slot (otherwise it is answered
\* slot taken and stores nothing), and no two bookings of one property that are not
\* cancelled ever share time.
C12_NoOverlapOneAtATime ==
    /\ \A r \in ReqIds :
          /\ reqs[r].pc = "insert_event" =>
                /\ \A e \in events :
                      e.property = reqs[r].propertyId => ~SharesTime(e, SlotMap[reqs[r].slotNumber])
                /\ \A b \in bookings :
                      (b.property = reqs[r].propertyId /\ b.status # "Cancelled")
                          => ~SharesTime(b, SlotMap[reqs[r].slotNumber])
          /\ (reqs[r].pc = "done" /\ (reqs[r].calendarHasConflict \/ reqs[r].airtableHasConflict)) =>
                /\ reqs[r].answer = "slot_taken"
                /\ \A e \in events : e.id # r
                /\ \A b \in bookings : b.id # r
    /\ \A b1 \in bookings, b2 \in bookings : ~DoubleBooked(b1, b2)

\* a request for a slot that shares an hour with a booked slot of the property is
\* answered slot taken
C12_Witness ==
    \E r \in ReqIds, b \in bookings :
        /\ reqs[r].answer = "slot_taken"
        /\ b.status = "Scheduled"
        /\ b.property = reqs[r].propertyId
        /\ b.start # SlotMap[reqs[r].slotNumber].start
        /\ SharesTime(b, SlotMap[reqs[r].slotNumber])

C22_ActionTagAndStageWritten ==
    Done =>
        /\ out.action \in ActionTags
        /\ out.action # ""
        /\ ("updateFields" \in DOMAIN out /\ out.updateFields # NoFields
              /\ input.t = "object" /\ leadExistsOf(input))
             => "Conversation Stage" \in DOMAIN out.updateFields

\* a known lead gets a descriptor that writes fields
C22_Witness ==
    /\ Done
    /\ input.t = "object"
    /\ leadExistsOf(input)
    /\ out.action = "cancel_booking"
    /\ DOMAIN out.updateFields = {"Conversation Stage", "Status"}

\* the stage a descriptor writes ("" when it writes none)
StageWritten(o) ==
    IF "updateFields" \in DOMAIN o /\ "Conversation Stage" \in DOMAIN o.updateFields
    THEN o.updateFields["Conversation Stage"] ELSE ""

\* the two variants give the same action and the same next stage
SameStep(o, p) == o.action = p.action /\ StageWritten(o) = StageWritten(p)

C23_Stricter(in) ==
    LET m == Normalized(in)
    IN  /\ IsString(in.message) \/ ~Truthy(in.message)
        /\ \/ m = <<"r","e","s","t","a","r","t">>
           \/ in.lead_stage = "asked_size" /\ AllDigits(m)
                 /\ (digitsValue(m) < 1 \/ digitsValue(m) > 20)
           \/ in.lead_stage = "asked_land_size" /\ Len(PlotSizeGiven(Typed(in), m)) < 2
           \/ in.lead_stage = "completed" /\ strictIsProperty(m)
                 /\ digitsValue(firstDigits(m)) = 0
           \/ in.lead_stage = "awaiting_time_slot" /\ AllDigits(m) /\ digitsValue(m) = 0

ListStages == {"asked_location", "asked_size", "asked_land_size"}

\* the step is a call of the router
Routed == out' # NoOut /\ input' # NoInput

HasScheduledBooking(leadId) == \E b \in bookings : b.lead = leadId /\ b.status = "Scheduled"

\* C25: once the router's update (stage booking_confirmed) is applied and the
\* create-booking request with the chosen slot number is answered, a lead whose stage
\* is booking_confirmed has a booking with Status Scheduled.
C25_ConfirmedLeadHasBooking ==
    \A r \in ReqIds :
        (/\ reqs[r].pc = "done"
         /\ reqs[r].slotNumber >= 1
         /\ leads[reqs[r].leadId].stage = "booking_confirmed")
            => HasScheduledBooking(reqs[r].leadId)

\* C26: after a finished create-booking request the calendar holds an event of the
\* request only if the Bookings table holds its booking record.
C26_EventOnlyWithBooking ==
    \A r \in ReqIds :
        (reqs[r].pc = "done" /\ \E e \in events : e.id = r)
            => \E b \in bookings : b.id = r

\* the answers of a create-booking request that is refused before the creation step
RejectedAnswers == {"missing_fields", "invalid_slot_map", "invalid_slot", "slot_taken"}

\* C27: the step that refuses a create-booking request before the creation step (a
\* required field missing, a slot map that does not parse, a slot number absent from
\* the map, a conflict found) leaves the calendar and the Bookings table as they are.
C27_RejectedRequestWritesNothing ==
    [][\A r \in ReqIds :
          (reqs[r].pc # "done" /\ reqs'[r].pc = "done" /\ reqs'[r].answer \in RejectedAnswers)
              => (events' = events /\ bookings' = bookings)]_vars

\* a request is refused for a conflict with the booking of the other request
C27_Witness ==
    \E r \in ReqIds :
        /\ reqs[r].answer = "slot_taken"
        /\ \E b \in bookings : b.id # r /\ b.status = "Scheduled"
        /\ ~\E e \in events : e.id = r
        /\ ~\E b \in bookings : b.id = r

\* the step is a cancel-booking request (it leaves the create-booking requests alone)
CancelStep == reqs' = reqs /\ <<events, bookings, leads, out>>' # <<events, bookings, leads, out>>

\* booking b becomes Cancelled and its lead booking_cancelled / Cancelled; at most the
\* calendar event of b goes
Cancels(b) ==
    /\ bookings' = (bookings \ {b}) \cup {[b EXCEPT !.status = "Cancelled"]}
    /\ leads' = [leads EXCEPT ![b.lead] = [stage |-> "booking_cancelled", status |-> "Cancelled"]]
    /\ events' \subseteq events
    /\ events \ events' \subseteq {e \in events : e.id = b.eventId}

CancelledWithSuccess(b) ==
    b.status = "Cancelled" /\ leads[b.lead] = [stage |-> "booking_cancelled", status |-> "Cancelled"]

\* nothing but bookings cancelled with success touches the slot of property p: no
\* other booking shares time with it and every event of p in it is theirs
OnlyCancelledInSlot(p, slot) ==
    /\ \A b \in bookings :
          (b.property = p /\ SharesTime(b, slot)) => CancelledWithSuccess(b)
    /\ \A e \in events :
          (e.property = p /\ SharesTime(e, slot)) =>
              \E b \in bookings : b.eventId = e.id /\ CancelledWithSuccess(b)

\* C29: when a create-booking request reads the calendar for a property and slot whose
\* booking cancel-booking has cancelled with success, and nothing else holds the slot,
\* it finds no conflict (so it is not answered slotTaken).
C29_CancelledSlotIsFree ==
    [][\A r \in ReqIds :
          (/\ reqs[r].pc = "check_calendar"
           /\ reqs'[r].pc = "check_bookings"
           /\ \E b \in bookings :
                 /\ CancelledWithSuccess(b)
                 /\ b.property = reqs[r].propertyId
                 /\ b.start = SlotMap[reqs[r].slotNumber].start
                 /\ b.end = SlotMap[reqs[r].slotNumber].end
           /\ OnlyCancelledInSlot(reqs[r].propertyId, SlotMap[reqs[r].slotNumber]))
              => ~reqs'[r].calendarHasConflict]_vars

\* C30: when cancel-booking answers success, the lead of the booking it cancelled has
\* no booking with Status Scheduled left.
C30_NoScheduledAfterCancel ==
    [][(CancelStep /\ out' = [success |-> TRUE, noBooking |-> FALSE, status |-> 200])
          => \A b \in bookings \ bookings' :
                ~\E c \in bookings' : c.lead = b.lead /\ c.status = "Scheduled"]_vars

\* the slots of the answer of available-slots-v2, once it is sent
Returned == IF slotReq.pc = "answered" THEN Range(slotReq.freeSlots) ELSE {}

\* the hour of day, the minute and the week day of an instant in the tenants' time
\* zone (Nairobi)
KenyaHour(t) == getHours(t, KENYA_OFFSET_HOURS)

KenyaMinute(t) == getMinutes(t, KENYA_OFFSET_HOURS)

KenyaDay(t) == getDay(t, KENYA_OFFSET_HOURS)

\* the instant of workEnd o'clock in Nairobi on the day a slot starts
KenyaWorkEnd(s) ==
    ((s.start + KENYA_OFFSET_HOURS * 60) \div 1440) * 1440
        + (slotReq.workEnd - KENYA_OFFSET_HOURS) * 60

SlotAfterOneHour(s) == s.start > slotReq.now + 60

SlotOnWorkingDay(s) == KenyaDay(s.start) \in slotReq.workingDays

SlotAtWorkingHour(s) ==
    /\ KenyaMinute(s.start) = 0
    /\ slotReq.workStart <= KenyaHour(s.start)
    /\ KenyaHour(s.start) < slotReq.workEnd

SlotEndsInWorkHours(s) == s.end <= KenyaWorkEnd(s)

SlotFree(s) == ~overlaps(slotReq.booked, s.start, s.end)

\* C31: every slot returned by available-slots-v2 starts more than one hour after
\* the request time, falls on a configured working day, starts at a full hour h with
\* workStart <= h < workEnd, ends no later than workEnd and overlaps no calendar
\* event of the property; at most 7 slots are returned.
C31_ReturnedSlotsRespectConfiguration ==
    /\ \A s \in Returned :
          /\ SlotAfterOneHour(s)
          /\ SlotOnWorkingDay(s)
          /\ SlotAtWorkingHour(s)
          /\ SlotEndsInWorkHours(s)
          /\ SlotFree(s)
    /\ slotReq.pc = "answered" => slotReq.count <= MAX_SLOTS

\* C32: the slots returned by available-slots-v2 are numbered 1..count with no gap,
\* the returned slotMap has exactly the keys 1..count, each mapped to "start|end" of
\* the slot with that number, and create-booking with a slot number of the answer
\* and the returned slotMap books exactly the interval of the slot of that number.
C32_SlotNumbersAndSlotMapAgree ==
    slotReq.pc = "answered" =>
        /\ slotReq.count = Len(slotReq.freeSlots)
        /\ \A i \in 1..slotReq.count : slotReq.freeSlots[i].number = i
        /\ DOMAIN slotReq.slotMap = {natToString(i) : i \in 1..slotReq.count}
        /\ \A i \in 1..slotReq.count :
              /\ natToString(i) \in DOMAIN slotReq.slotMap
              /\ slotReq.slotMap[natToString(i)] =
                    toISOString(slotReq.freeSlots[i].start) \o <<"|">>
                        \o toISOString(slotReq.freeSlots[i].end)
              /\ slotDataOf(slotReq.slotMap, i) =
                    {[start |-> slotReq.freeSlots[i].start, end |-> slotReq.freeSlots[i].end]}

\* an answer with several slots, two of them at the same time
C32_Witness ==
    /\ slotReq.pc = "answered"
    /\ slotReq.count >= 3
    /\ slotReq.freeSlots[1].start = slotReq.freeSlots[2].start

\* C33: the slots returned by one available-slots-v2 request are in strictly
\* increasing start order and pairwise non-overlapping: no slot is returned twice
\* and no two returned slots share any time.
C33_SlotsIncreasingAndDisjoint ==
    slotReq.pc = "answered" =>
        \A i, j \in 1..Len(slotReq.freeSlots) :
            i < j => /\ slotReq.freeSlots[i].start < slotReq.freeSlots[j].start
                     /\ slotReq.freeSlots[i].end <= slotReq.freeSlots[j].start

\* C34: the slot generation of available-slots-v2 terminates for every tenant
\* configuration, durations below 60 minutes included: every request is answered.
C34_SlotGenerationTerminates == <>(slotReq.pc = "answered")

\* an answer for a duration below 60 minutes, where the hour did not advance after
\* a free slot and the slot limit ended the loops
C34_Witness ==
    /\ slotReq.pc = "answered"
    /\ slotReq.slotDuration < 60
    /\ slotReq.count = MAX_SLOTS
    /\ slotReq.hour = slotReq.workStart

(***************************************************************************)
(* POST /api/check-notifications and POST /api/mark-notification-sent.     *)
(* Times are minutes.                                                      *)
(***************************************************************************)
NotificationTypes == {"reminder_12h", "reminder_1h", "followup"}

\* Airtable's IS_AFTER and IS_BEFORE
IS_AFTER(a, b) == a > b

IS_BEFORE(a, b) == a < b

\* the time conditions of the three filters: the start between 11 and 12 hours, or
\* between 50 and 60 minutes, after now; the end between 3.5 and 2.5 hours before now
InWindow(type, booking, now) ==
    CASE type = "reminder_12h" ->
            IS_AFTER(booking.start, now + 11 * 60) /\ IS_BEFORE(booking.start, now + 12 * 60)
      [] type = "reminder_1h" ->
            IS_AFTER(booking.start, now + 50) /\ IS_BEFORE(booking.start, now + 60)
      [] type = "followup" ->
            IS_AFTER(booking.end, now - 210) /\ IS_BEFORE(booking.end, now - 150)

\* a filter that does not read the flag
selectDueAnyFlag(type, bks, sent, now) ==
    {b \in bks : b.status = "Scheduled" /\ InWindow(type, b, now)}

\* base('Bookings').select({filterByFormula: AND({Status} = "Scheduled",
\* {<flag>} = FALSE(), IS_AFTER(...), IS_BEFORE(...))})
selectDue(type, bks, sent, now) ==
    {b \in bks : /\ b.status = "Scheduled"
                 /\ <<b.id, type>> \notin sent
                 /\ InWindow(type, b, now)}

\* the request arrives: const now = new Date()
CheckStart ==
    /\ notif.check.pc \in {"idle", "answered"}
    /\ notif' = [notif EXCEPT !.check = [pc |-> "reminder_12h", now |-> notif.now, all |-> {},
                                         success |-> FALSE]]
    /\ UNCHANGED routerVars
    /\ UNCHANGED bookingVars
    /\ UNCHANGED slotVars

\* one of the three selects with its loop over the records found; the select or a
\* find of the loop may reject, and then the answer is 500
CheckSelect(ok) ==
    /\ notif.check.pc \in NotificationTypes
    /\ LET type == notif.check.pc
           found == selectDue(type, bookings, notif.sent, notif.check.now)
       IN  notif' =
             IF ~ok
             THEN [notif EXCEPT !.check.pc = "answered", !.check.all = {},
                                !.check.success = FALSE]
             ELSE [notif EXCEPT
                     !.check.all = @ \cup {[type |-> type, bookingId |-> b.id] : b \in found},
                     !.check.pc = CASE type = "reminder_12h" -> "reminder_1h"
                                    [] type = "reminder_1h" -> "followup"
                                    [] type = "followup" -> "respond"]
    /\ UNCHANGED routerVars
    /\ UNCHANGED bookingVars
    /\ UNCHANGED slotVars

\* res.json({success: true, notifications: allNotifications, count})
CheckRespond ==
    /\ notif.check.pc = "respond"
    /\ notif' = [notif EXCEPT !.check.pc = "answered", !.check.success = TRUE]
    /\ UNCHANGED routerVars
    /\ UNCHANGED bookingVars
    /\ UNCHANGED slotVars

\* POST /api/mark-notification-sent: the flag of the type is set on the booking; a
\* type that is none of the three updates nothing; the update may reject
MarkNotificationSent(bookingId, type, ok) ==
    /\ notif' = IF bookingId # "" /\ type # "" /\ ok /\ type \in NotificationTypes
                THEN [notif EXCEPT !.sent = @ \cup {<<bookingId, type>>}]
                ELSE notif
    /\ ok => bookingId \in {b.id : b \in bookings}
    /\ UNCHANGED routerVars
    /\ UNCHANGED bookingVars
    /\ UNCHANGED slotVars

\* time passes
Tick(t) ==
    /\ t > notif.now
    /\ notif' = [notif EXCEPT !.now = t]
    /\ UNCHANGED routerVars
    /\ UNCHANGED bookingVars
    /\ UNCHANGED slotVars

\* a viewing from minute 1440 to minute 1500
Viewing(id, leadId, propertyId) ==
    [id |-> id, lead |-> leadId, property |-> propertyId, start |-> 1440, end |-> 1500,
     status |-> "Scheduled", eventId |-> id]

\* the clock readings: before every window, at the edge of and inside the 12-hour
\* window (720 to 780), inside the 1-hour window (1380 to 1390), inside the
\* follow-up window (1650 to 1710), after all of them
ClockTimes == {0, 720, 730, 770, 1385, 1660, 1700, 1800}

MarkTypes == NotificationTypes \cup {"other", ""}

NotifInit ==
    /\ lead = NoLead
    /\ tenant = Tenant(JsString(<<"L","a","n","d",","," ","R","e","n","t">>))
    /\ input = NoInput
    /\ out = NoOut
    /\ pc = "idle"
    /\ bookings = {Viewing("b1", "rec1", "propA"), Viewing("b2", "rec2", "propB")}
    /\ events = {[id |-> b.eventId, property |-> b.property, start |-> b.start, end |-> b.end] :
                    b \in bookings}
    /\ leads = [l \in LeadIds |-> [stage |-> "booking_confirmed", status |-> "Contacted"]]
    /\ reqs = [r \in ReqIds |-> NoRequest(r)]
    /\ slotReq = NoSlotRequest
    /\ notif = NoNotifications

NotifNext ==
    \/ CheckStart
    \/ \E ok \in BOOLEAN : CheckSelect(ok)
    \/ CheckRespond
    \/ \E bookingId \in {"b1", "b2", ""}, type \in MarkTypes, ok \in BOOLEAN :
          MarkNotificationSent(bookingId, type, ok)
    \/ \E t \in ClockTimes : Tick(t)
    \/ \E leadId \in LeadIds, updated \in BOOLEAN : CancelBooking(leadId, TRUE, updated, TRUE)

SpecNotifications == NotifInit /\ [][NotifNext]_vars

\* the notifications a step of check-notifications adds to its answer
AddedNotifications == notif.check.all' \ notif.check.all

\* a select never returns a booking whose flag of the type is already set
MarkedNotReturned ==
    [][\A n \in AddedNotifications : <<n.bookingId, n.type>> \notin notif.sent]_vars

\* the steps of check-notifications leave the calendar, the tables and the flags alone
CheckWritesNothing ==
    [][notif.check' # notif.check =>
          /\ UNCHANGED <<events, bookings, leads>>
          /\ notif.sent' = notif.sent]_vars

\* the bookings of type due at the time of the answered check and not marked
DueUnmarked(type) ==
    {b \in bookings : <<b.id, type>> \notin notif.sent /\ InWindow(type, b, notif.check.now)}

ScheduledDueReturned ==
    notif.check.pc = "answered" /\ notif.check.success =>
        \A type \in NotificationTypes : \A b \in DueUnmarked(type) :
            b.status = "Scheduled" => [type |-> type, bookingId |-> b.id] \in notif.check.all

FollowupAnswer(status, success, invalidResponse, notifyAgent) ==
    [status |-> status, success |-> success, invalidResponse |-> invalidResponse,
     notifyAgent |-> notifyAgent]

\* response === '1' || response.toLowerCase().includes('interested')
isInterested(reply) ==
    reply.v = <<"1">> \/ includes(toLowerCase(reply.v), <<"i","n","t","e","r","e","s","t","e","d">>)

\* response === '2' || response.toLowerCase().includes('not interested')
isNotInterested(reply) ==
    reply.v = <<"2">> \/ includes(toLowerCase(reply.v), <<"n","o","t"," ","i","n","t","e","r","e","s","t","e","d">>)

\* the handler: the fields written to the lead (none: {}) and the answer. found and
\* updated tell whether Leads.find and Leads.update resolve; toLowerCase of a
\* response that is not a string throws
handleFollowupResponse(leadId, reply, found, updated) ==
    IF leadId = "" \/ ~Truthy(reply)
    THEN [update |-> {}, answer |-> FollowupAnswer(400, FALSE, FALSE, "undefined")]
    ELSE IF ~found \/ ~IsString(reply)
    THEN [update |-> {}, answer |-> FollowupAnswer(500, FALSE, FALSE, "undefined")]
    ELSE IF isInterested(reply)
    THEN IF updated
         THEN [update |-> {[status |-> "Hot Lead", stage |-> "interested_after_viewing"]},
               answer |-> FollowupAnswer(200, TRUE, FALSE, "true")]
         ELSE [update |-> {}, answer |-> FollowupAnswer(500, FALSE, FALSE, "undefined")]
    ELSE IF isNotInterested(reply)
    THEN IF updated
         THEN [update |-> {[status |-> "Not Interested",
                            stage |-> "not_interested_after_viewing"]},
               answer |-> FollowupAnswer(200, TRUE, FALSE, "false")]
         ELSE [update |-> {}, answer |-> FollowupAnswer(500, FALSE, FALSE, "undefined")]
    ELSE [update |-> {}, answer |-> FollowupAnswer(200, FALSE, TRUE, "undefined")]

HandleFollowupResponse(leadId, reply, found, updated) ==
    /\ pc = "idle"
    /\ found => leadId \in LeadIds
    /\ LET result == handleFollowupResponse(leadId, reply, found, updated)
       IN  /\ input' = [t |-> "followup_response", leadId |-> leadId, response |-> reply]
           /\ out' = result.answer
           /\ leads' = IF result.update = {} THEN leads
                       ELSE [leads EXCEPT ![leadId] = CHOOSE u \in result.update : TRUE]
    /\ UNCHANGED <<lead, tenant, pc, events, bookings, reqs>>
    /\ UNCHANGED slotVars
    /\ UNCHANGED notifVars

\* the response texts of the requests
FollowupTexts ==
    {<<"1">>, <<"2">>, <<"3">>, <<"i","n","t","e","r","e","s","t","e","d">>, <<"I","n","t","e","r","e","s","t","e","d","!">>, <<"n","o","t"," ","i","n","t","e","r","e","s","t","e","d">>, <<"N","o","t"," ","I","n","t","e","r","e","s","t","e","d">>,
     <<"n","o">>, <<"h","i">>, <<"1","2">>, <<>>}

\* what the response field holds: the text of the lead's message
FollowupResponses == {JsString(m) : m \in FollowupTexts}

FollowUpNext ==
    \E leadId \in LeadIds \cup {""}, reply \in FollowupResponses,
       found \in BOOLEAN, updated \in BOOLEAN :
        HandleFollowupResponse(leadId, reply, found, updated)

\* the leads have had their viewing
SpecFollowUp == Init /\ [][FollowUpNext]_vars

\* the request and the answer of a step of the handler that answered 200
FollowupHandled == input'.t = "followup_response" /\ out'.status = 200

SaysNotInterested(reply) ==
    reply.v = <<"2">> \/ includes(toLowerCase(reply.v), <<"n","o","t"," ","i","n","t","e","r","e","s","t","e","d">>)

SaysInterested(reply) ==
    /\ reply.v = <<"1">> \/ includes(toLowerCase(reply.v), <<"i","n","t","e","r","e","s","t","e","d">>)
    /\ ~SaysNotInterested(reply)

\* C36: handle-followup-response marks the lead as not interested (Status "Not
\* Interested", stage not_interested_after_viewing, notifyAgent false) for the
\* response "2" and for every text that contains "not interested", marks it as a hot
\* lead (Status "Hot Lead", stage interested_after_viewing, notifyAgent true) only
\* for "1" or a text expressing interest, and for any other response changes no
\* lead field and answers invalidResponse.
C36_FollowupResponseClassified ==
    [][FollowupHandled =>
          LET leadId == input'.leadId
              reply == input'.response
          IN  /\ SaysNotInterested(reply) =>
                    /\ leads'[leadId] = [status |-> "Not Interested",
                                         stage |-> "not_interested_after_viewing"]
                    /\ out'.notifyAgent = "false"
              /\ out'.notifyAgent = "true" =>
                    /\ SaysInterested(reply)
                    /\ leads'[leadId] = [status |-> "Hot Lead",
                                         stage |-> "interested_after_viewing"]
              /\ ~SaysNotInterested(reply) /\ ~SaysInterested(reply) =>
                    /\ leads' = leads
                    /\ out'.invalidResponse]_vars

==============================================================================
